---- MODULE Spec2Model ----
(***************************************************************************)
(* Verification model of fastapiex-settings: the layered LWW store         *)
(* (live_config.py), the schema registry (registry.py) and the settings    *)
(* manager with its control-plane convergence loop (manager.py).           *)
(***************************************************************************)
EXTENDS Integers, Sequences, FiniteSets, TLC

(***************************************************************************)
(* Bounds of the model.                                                    *)
(***************************************************************************)
\* Number of store calls (reset / replace_sources) in one behaviour.
MaxCalls == 2

\* Changes made around the manager in one behaviour: files rewritten,
\* environment variables set, syncs registered, returned records mutated.
MaxChanges == 2

\* Number of registry calls (register_section / unregister_owner) in one behaviour.
RegMaxCalls == 3

\* Public calls made on the manager in one behaviour.
MgrMaxCalls == 2

(***************************************************************************)
(* Values: a nested mapping is a tree of tagged nodes.  A scalar is        *)
(* [t |-> "s", v |-> n]; a dict is [t |-> "m", kids |-> f] with f a        *)
(* function from keys to nodes; None is [t |-> "none"].                    *)
(***************************************************************************)
Scalar(v) == [t |-> "s", v |-> v]

Dict(f) == [t |-> "m", kids |-> f]

None == [t |-> "none"]

EmptyFn == [k \in {} |-> None]

EmptyDict == Dict(EmptyFn)

Put(f, k, v) == [x \in (DOMAIN f) \cup {k} |-> IF x = k THEN v ELSE f[x]]

Drop(f, k) == [x \in (DOMAIN f) \ {k} |-> f[x]]

\* A Python bool, kept apart from the string of the same spelling.
Bool(b) == [t |-> "b", v |-> b]

\* Python's ordering of the key strings used by the model (upper case first).
KeyRank ==
    [APP |-> 1, APP__NAME |-> 2, App |-> 3, CASE_SENSITIVE |-> 4, FASTAPIEX |-> 5,
     FASTAPIEX__SETTINGS__CASE_SENSITIVE |-> 6, FASTAPIEX__SETTINGS__PATH |-> 7,
     FASTAPIEX__SETTINGS__RELOAD |-> 8, FastAPIEx |-> 9, NAME |-> 10, Name |-> 11,
     RELOAD |-> 12, Reload |-> 13, SETTINGS |-> 14, Settings |-> 15, app |-> 16,
     base_dir |-> 17, case_sensitive |-> 18, db |-> 19, east |-> 20, env_prefix |-> 21,
     fastapiex |-> 22, fastapiex__settings__env_prefix |-> 23, first |-> 24,
     name |-> 25, path |-> 26, peers |-> 27, port |-> 28, reload |-> 29,
     settings |-> 30, worker |-> 31]

(***************************************************************************)
(* live_config.py                                                          *)
(***************************************************************************)
SOURCE_PRIORITY == [yaml |-> 1, dotenv |-> 2, env |-> 3]

SOURCE_ORDER == <<"yaml", "dotenv", "env">>

SourceNames == {"yaml", "dotenv", "env"}

SourceValue(rev_, value) == [rev |-> rev_, value |-> value]

\* The nested mappings of the model: {}, two file-shaped mappings that differ
\* in app.name only, a scalar at app, and an empty dict at app.
MapEmpty == EmptyFn

MapA1 == [k \in {"app"} |-> Dict([j \in {"name", "port"} |-> Scalar("1")])]

MapA2 == [k \in {"app"} |-> Dict([j \in {"name", "port"} |-> IF j = "name" THEN Scalar("2") ELSE Scalar("1")])]

MapScalar == [k \in {"app"} |-> Scalar("1")]

MapEmptyDict == [k \in {"app"} |-> EmptyDict]

\* The mappings each source is given by reset / replace_sources.
SourceMappings ==
    [yaml |-> {MapEmpty, MapA1, MapA2},
     dotenv |-> {MapA2, MapEmptyDict},
     env |-> {MapA1, MapScalar}]

Mappings == UNION {SourceMappings[source] : source \in {"yaml", "dotenv", "env"}}

RECURSIVE flatten_mapping(_, _)
flatten_mapping(mapping, prefix) ==
    LET one(key) ==
            LET path == Append(prefix, key)
                value == mapping[key]
            IN  IF value.t = "m"
                THEN IF DOMAIN value.kids = {}
                     THEN (path :> EmptyDict)
                     ELSE LET nested == flatten_mapping(value.kids, path)
                          IN  IF DOMAIN nested # {} THEN nested ELSE (path :> EmptyDict)
                ELSE (path :> value)
        RECURSIVE upd(_)
        upd(keys) ==
            IF keys = {} THEN EmptyFn
            ELSE LET key == CHOOSE k \in keys : TRUE
                 IN  one(key) @@ upd(keys \ {key})
    IN  upd(DOMAIN mapping)


(***************************************************************************)
(* The manager's surroundings: settings files and environment variables.   *)
(***************************************************************************)
\* Path.cwd() / "settings.yaml"
DefaultSettingsPath == "settings.yaml"

FilePaths == {"settings.yaml", "b.yaml", "c.yaml"}

\* {app: {name: n}}
AppOnly(n) == [k \in {"app"} |-> Dict([j \in {"name"} |-> Scalar(n)])]

\* {<root>: {<settings>: {<key>: value}}, app: {name: n}}
WithControl(root, settings_key, key, value, n) ==
    (root :> Dict(settings_key :> Dict(key :> Scalar(value)))) @@ AppOnly(n)

Redirect(target, n) == WithControl("fastapiex", "settings", "path", target, n)

\* The contents each settings file may have.
FileContents ==
    [p \in FilePaths |->
        CASE p = "settings.yaml" ->
                {AppOnly("s"), Redirect("b.yaml", "s"), Redirect("conf", "s"),
                 WithControl("fastapiex", "settings", "reload", "always", "s"),
                 WithControl("fastapiex", "settings", "env_prefix", "APP__", "s")}
          [] p = "b.yaml" ->
                {AppOnly("b"), Redirect("c.yaml", "b"), Redirect("settings.yaml", "b"),
                 WithControl("FastAPIEx", "Settings", "case_sensitive", "true", "b")}
          [] OTHER ->
                {AppOnly("c"), Redirect("settings.yaml", "c")}]

FileSystems ==
    {[p \in FilePaths |-> IF p = "settings.yaml" THEN s ELSE IF p = "b.yaml" THEN b ELSE c] :
        s \in FileContents["settings.yaml"], b \in FileContents["b.yaml"],
        c \in FileContents["c.yaml"]}

\* os.environ: raw strings by key.
Environments ==
    {EmptyFn,
     [k \in {"FASTAPIEX__SETTINGS__RELOAD"} |-> "true"],
     [k \in {"FASTAPIEX__SETTINGS__PATH"} |-> "b.yaml"],
     [k \in {"APP__NAME"} |-> "env"]}

\* The raw env snapshot given to the store: one top-level key per variable.
load_env_snapshot_raw(env) == [k \in DOMAIN env |-> Scalar(env[k])]

\* {fastapiex: {settings: {reload: mode}}, app: {name: n}}
Reload(mode, n) == WithControl("fastapiex", "settings", "reload", mode, n)

\* The files that are rewritten while the manager runs: the settings file and
\* the .env file next to it, the latter given as its raw key/value lines.
WrittenPaths == {"settings.yaml", ".env"}

WrittenContents ==
    [p \in WrittenPaths |->
        IF p = "settings.yaml"
        THEN {AppOnly("s"), Reload("on_change", "s"), Reload("always", "t")}
        ELSE {load_env_snapshot_raw([k \in {"APP__NAME"} |-> "dot"]),
              load_env_snapshot_raw([k \in {"APP__NAME"} |-> "dot2"])}]

\* os.environ when the manager starts, and the variable set while it runs.
StartEnvironments == {EmptyFn, [k \in {"FASTAPIEX__SETTINGS__RELOAD"} |-> "true"]}

SetVariable == [k \in {"APP__NAME"} |-> "env"]

WrittenEnvironments == {SetVariable @@ env : env \in StartEnvironments}

\* A settings file with a value for every section of ResolveRecords.
Rich ==
    [k \in {"APP", "app", "worker", "peers"} |->
        CASE k = "APP" -> Dict([j \in {"name"} |-> Scalar("upper")])
          [] k = "app" -> Dict([j \in {"name", "db"} |->
                                  IF j = "name" THEN Scalar("lower")
                                  ELSE Dict([i \in {"name"} |-> Scalar("d")])])
          [] k = "worker" -> Dict([j \in {"name"} |-> Scalar("jobs")])
          [] OTHER -> Dict([j \in {"east"} |-> Dict([i \in {"name"} |-> Scalar("e")])])]

\* The same file without any name: class B fails to validate.
Bare ==
    [k \in {"APP", "app", "worker", "peers"} |->
        CASE k = "app" -> Dict([j \in {"db"} |-> EmptyDict])
          [] k = "peers" -> Dict([j \in {"east"} |-> EmptyDict])
          [] OTHER -> EmptyDict]

\* A file whose app.name is a mapping: no class validates.
Bad == [Rich EXCEPT !["app"] = Dict([j \in {"name"} |-> Dict([i \in {"first"} |-> Scalar("x")])])]

\* {<root>: {<settings>: {<key>: value}}} added to a file.
Controlled(root, settings_key, key, value, content) ==
    (root :> Dict(settings_key :> Dict(key :> Scalar(value)))) @@ content

\* A file whose map section peers has an item named fastapiex.
Nested ==
    [Rich EXCEPT !["peers"] = Dict([j \in {"fastapiex"} |-> Dict([i \in {"name"} |-> Scalar("e")])])]

\* The settings files of the requests with a field.
FieldContents == {Nested, Controlled("fastapiex", "settings", "reload", "always", Nested)}

\* The settings files of the resolving manager; the reload control is
\* spelled in mixed case or in lower case.
ResolveContents ==
    {Rich,
     Controlled("FastAPIEx", "Settings", "Reload", "always", Rich),
     Controlled("fastapiex", "settings", "reload", "always", Bare),
     Controlled("fastapiex", "settings", "reload", "always", Bad)}

\* The .env files: empty, or setting the exact case policy.
ResolveDotenvs ==
    {EmptyFn, load_env_snapshot_raw([k \in {"FASTAPIEX__SETTINGS__CASE_SENSITIVE"} |-> "true"])}

\* os.environ: empty, or an env_prefix control under a lower-case key.
ResolveEnvironments == {EmptyFn, [k \in {"fastapiex__settings__env_prefix"} |-> "APP__"]}

ManagerMappings ==
    UNION {FileContents[p] : p \in FilePaths}
        \cup {load_env_snapshot_raw(env) : env \in Environments}
        \cup UNION {WrittenContents[p] : p \in WrittenPaths}
        \cup {load_env_snapshot_raw(env) : env \in WrittenEnvironments}
        \cup ResolveContents \cup ResolveDotenvs \cup FieldContents
        \cup {load_env_snapshot_raw(env) : env \in ResolveEnvironments}

\* flatten_mapping(mapping) of every mapping of the model, computed once.
FlatTable == [mapping \in Mappings \cup ManagerMappings |-> flatten_mapping(mapping, <<>>)]

Flat(mapping) == FlatTable[mapping]

\* Mutant: seeds stamped with the priorities reversed.
build_seed_slots_reversed(flat_by_source) ==
    LET paths == UNION {DOMAIN flat_by_source[source] : source \in SourceNames}
        holders(path) == {source \in SourceNames : path \in DOMAIN flat_by_source[source]}
    IN  [path \in paths |->
            [source \in holders(path) |->
                SourceValue(4 - SOURCE_PRIORITY[source], flat_by_source[source][path])]]

build_seed_slots(flat_by_source) ==
    LET paths == UNION {DOMAIN flat_by_source[source] : source \in SourceNames}
        holders(path) == {source \in SourceNames : path \in DOMAIN flat_by_source[source]}
    IN  [path \in paths |->
            [source \in holders(path) |->
                SourceValue(SOURCE_PRIORITY[source], flat_by_source[source][path])]]

sort_sources(sources) == SelectSeq(SOURCE_ORDER, LAMBDA source : source \in sources)

current_source_values(slots_, source) ==
    [path \in {p \in DOMAIN slots_ : source \in DOMAIN slots_[p]} |-> slots_[path][source]]

\* Mutant: every path of the new mapping is treated as updated.
diff_source_update_restamp(slots_, source, mapping) ==
    LET next_flat == Flat(mapping)
        current == current_source_values(slots_, source)
    IN  [removed |-> {path \in DOMAIN current : path \notin DOMAIN next_flat},
         updated |-> next_flat]

\* The removed paths and the updated values of _diff_source_update, given
\* what the source holds and the flattened new mapping.
diff_flat(current, next_flat) ==
    [removed |-> {path \in DOMAIN current : path \notin DOMAIN next_flat},
     updated |-> [path \in {p \in DOMAIN next_flat :
                                p \notin DOMAIN current \/ current[p].value # next_flat[p]}
                    |-> next_flat[path]]]

diff_source_update(slots_, source, mapping) ==
    diff_flat(current_source_values(slots_, source), Flat(mapping))

\* The plan of _plan_source_updates given each source's diff: the sources
\* whose diff is not empty, with their removals and updates.
plan_touched(diff, touched) ==
    [touched_sources |-> touched,
     removed_by_source |-> [source \in touched |-> diff[source].removed],
     updated_by_source |-> [source \in touched |-> diff[source].updated]]

plan_diffs(diff) ==
    plan_touched(diff, {source \in DOMAIN diff :
                           diff[source].removed # {} \/ DOMAIN diff[source].updated # {}})

plan_source_updates(slots_, updates) ==
    plan_diffs([source \in DOMAIN updates |->
                   diff_source_update(slots_, source, updates[source])])

\* Mutant: revisions handed out in descending priority order.
allocate_revs_descending(base, sources) ==
    LET ordered == sort_sources(sources)
    IN  [source \in sources |->
            base + Len(ordered) + 1
                 - (CHOOSE offset \in 1..Len(ordered) : ordered[offset] = source)]

allocate_revs(base, sources) ==
    LET ordered == sort_sources(sources)
    IN  [source \in sources |->
            base + (CHOOSE offset \in 1..Len(ordered) : ordered[offset] = source)]

\* Mutant: removed paths are left in place.
apply_source_path_removals_skipped(slots_, source, paths) == slots_

apply_source_path_removals(slots_, source, paths) ==
    LET pruned(path) == IF path \in paths THEN Drop(slots_[path], source) ELSE slots_[path]
    IN  [path \in {p \in DOMAIN slots_ : DOMAIN pruned(p) # {}} |-> pruned(path)]

apply_source_path_updates(slots_, source, updates, rev_) ==
    [path \in (DOMAIN slots_) \cup (DOMAIN updates) |->
        IF path \in DOMAIN updates
        THEN Put(IF path \in DOMAIN slots_ THEN slots_[path] ELSE EmptyFn,
                 source, SourceValue(rev_, updates[path]))
        ELSE slots_[path]]

RECURSIVE apply_source_updates(_, _, _, _)
apply_source_updates(slots_, ordered, plan, rev_by_source) ==
    IF ordered = <<>> THEN slots_
    ELSE LET source == Head(ordered)
             removed == apply_source_path_removals(slots_, source, plan.removed_by_source[source])
             updated == apply_source_path_updates(removed, source, plan.updated_by_source[source],
                                                  rev_by_source[source])
         IN  apply_source_updates(updated, Tail(ordered), plan, rev_by_source)

\* (rev, priority) compared lexicographically, as Python compares the meta tuples.
MetaLess(a, b) == a[1] < b[1] \/ (a[1] = b[1] /\ a[2] < b[2])

\* Mutant: priority compared before the revision.
pick_winner_priority_first(slot) ==
    CHOOSE source \in DOMAIN slot :
        \A other \in DOMAIN slot : SOURCE_PRIORITY[other] <= SOURCE_PRIORITY[source]

pick_winner(slot) ==
    LET meta(source) == <<slot[source].rev, SOURCE_PRIORITY[source]>>
    IN  CHOOSE source \in DOMAIN slot :
            \A other \in (DOMAIN slot) \ {source} : MetaLess(meta(other), meta(source))

compute_winners(slots_) ==
    [path \in DOMAIN slots_ |->
        LET source == pick_winner(slots_[path])
        IN  <<slots_[path][source].rev, SOURCE_PRIORITY[source], slots_[path][source].value>>]

RECURSIVE set_nested_afresh(_, _, _)
\* Mutant: the mapping on the way to the value is made anew, not reused.
set_nested_afresh(target, path, value) ==
    IF Len(path) = 1 THEN Put(target, path[1], value)
    ELSE Put(target, Head(path),
             Dict(set_nested_afresh(EmptyFn, Tail(path), value)))

RECURSIVE set_nested_force(_, _, _)
set_nested_force(target, path, value) ==
    IF Len(path) = 1 THEN Put(target, path[1], value)
    ELSE LET part == Head(path)
             existing == IF part \in DOMAIN target /\ target[part].t = "m"
                         THEN target[part].kids ELSE EmptyFn
         IN  Put(target, part, Dict(set_nested_force(existing, Tail(path), value)))

\* Python tuple-of-strings comparison p < q.
RECURSIVE PathLess(_, _)
PathLess(p, q) ==
    IF p = <<>> THEN q # <<>>
    ELSE IF q = <<>> THEN FALSE
    ELSE IF Head(p) = Head(q) THEN PathLess(Tail(p), Tail(q))
    ELSE KeyRank[Head(p)] < KeyRank[Head(q)]

\* The sort key (rev, priority, len(path), path) of build_materialized_snapshot.
SortKeyLess(winners, p, q) ==
    LET a == winners[p]
        b == winners[q]
    IN  \/ MetaLess(a, b)
        \/ /\ a[1] = b[1] /\ a[2] = b[2]
           /\ \/ Len(p) < Len(q)
              \/ (Len(p) = Len(q) /\ PathLess(p, q))

RECURSIVE write_sorted(_, _, _)
write_sorted(winners, paths, merged) ==
    IF paths = {} THEN merged
    ELSE LET path == CHOOSE p \in paths : \A q \in paths \ {p} : SortKeyLess(winners, p, q)
         IN  write_sorted(winners, paths \ {path},
                          set_nested_force(merged, path, winners[path][3]))

build_materialized_snapshot(winners) == Dict(write_sorted(winners, DOMAIN winners, EmptyFn))

\* Walk a materialized snapshot; None when the path is not in it.
RECURSIVE Lookup(_, _)
Lookup(node, path) ==
    IF path = <<>> THEN node
    ELSE IF node.t = "m" /\ Head(path) \in DOMAIN node.kids
         THEN Lookup(node.kids[Head(path)], Tail(path))
         ELSE None


(***************************************************************************)
(* LiveConfigStore as a state machine.  slots, rev, version and            *)
(* cached_materialized are the object's fields; call records the last      *)
(* public call (name, arguments, return value) and pre the fields and the  *)
(* materialization as they were when that call started.                    *)
(***************************************************************************)
VARIABLES slots, rev, version, cached_materialized, call, pre, ncalls

svars == <<slots, rev, version, cached_materialized, call, pre, ncalls>>

\* What materialize() returns in a state with these fields.
materialize(slots_, cached) ==
    IF cached = None THEN build_materialized_snapshot(compute_winners(slots_)) ELSE cached

StoreFields == [slots |-> slots, rev |-> rev, version |-> version,
                cached_materialized |-> cached_materialized, op |-> call.op]

MaxOf(S) == IF S = {} THEN 0 ELSE CHOOSE x \in S : \A y \in S : y <= x

SlotRevs(slots_) ==
    UNION {{slots_[path][source].rev : source \in DOMAIN slots_[path]} : path \in DOMAIN slots_}

StoreInit ==
    /\ slots = EmptyFn
    /\ rev = 0
    /\ version = 0
    /\ cached_materialized = None
    /\ call = [op |-> "init", args |-> EmptyFn, ret |-> FALSE]
    /\ pre = [slots |-> EmptyFn, rev |-> 0, version |-> 0, cached_materialized |-> None,
              op |-> "init"]
    /\ ncalls = 0

\* Mutant: reset installs the seeded slots without comparing them.
store_reset_uncompared(store, sources) ==
    LET flat_by_source == [source \in SourceNames |-> Flat(sources[source])]
        new_slots == build_seed_slots(flat_by_source)
    IN  [slots |-> new_slots, rev |-> MaxOf(SlotRevs(new_slots)),
         version |-> store.version + 1, changed |-> TRUE]

\* reset on a store with these fields: the fields after it and its return value.
store_reset(store, sources) ==
    LET flat_by_source == [source \in SourceNames |-> Flat(sources[source])]
        new_slots == build_seed_slots(flat_by_source)
    IN  IF new_slots = store.slots
        THEN [slots |-> store.slots, rev |-> store.rev, version |-> store.version,
              changed |-> FALSE]
        ELSE [slots |-> new_slots, rev |-> MaxOf(SlotRevs(new_slots)),
              version |-> store.version + 1, changed |-> TRUE]

\* replace_sources on a store with these fields: the fields after it and its
\* return value.
\* replace_sources once the plan is made.
store_apply_plan(store, plan) ==
    IF plan.touched_sources = {}
    THEN [slots |-> store.slots, rev |-> store.rev, version |-> store.version,
          changed |-> FALSE]
    ELSE [slots |-> apply_source_updates(store.slots, sort_sources(plan.touched_sources),
                                         plan, allocate_revs(store.rev, plan.touched_sources)),
          rev |-> store.rev + Cardinality(plan.touched_sources),
          version |-> store.version + 1, changed |-> TRUE]

store_replace_sources(store, updates) ==
    store_apply_plan(store, plan_source_updates(store.slots, updates))

Store == [slots |-> slots, rev |-> rev, version |-> version]

reset(sources) ==
    LET done == store_reset(Store, sources)
    IN  /\ ncalls < MaxCalls
        /\ ncalls' = ncalls + 1
        /\ pre' = StoreFields
        /\ slots' = done.slots
        /\ rev' = done.rev
        /\ version' = done.version
        /\ cached_materialized' = IF done.changed THEN None ELSE cached_materialized
        /\ call' = [op |-> "reset", args |-> sources, ret |-> done.changed]

\* Mutant: replace_sources leaves the cached materialization in place.
replace_sources_cache_kept(updates) ==
    LET done == store_replace_sources(Store, updates)
    IN  /\ ncalls < MaxCalls
        /\ ncalls' = ncalls + 1
        /\ pre' = StoreFields
        /\ slots' = done.slots
        /\ rev' = done.rev
        /\ version' = done.version
        /\ cached_materialized' = cached_materialized
        /\ call' = [op |-> "replace_sources", args |-> updates, ret |-> done.changed]

replace_sources(updates) ==
    LET done == store_replace_sources(Store, updates)
    IN  /\ ncalls < MaxCalls
        /\ ncalls' = ncalls + 1
        /\ pre' = StoreFields
        /\ slots' = done.slots
        /\ rev' = done.rev
        /\ version' = done.version
        /\ cached_materialized' = IF done.changed THEN None ELSE cached_materialized
        /\ call' = [op |-> "replace_sources", args |-> updates, ret |-> done.changed]

Materialize ==
    /\ cached_materialized = None
    /\ cached_materialized' = build_materialized_snapshot(compute_winners(slots))
    /\ UNCHANGED <<slots, rev, version, call, pre, ncalls>>

Reset ==
    \E y \in SourceMappings.yaml, d \in SourceMappings.dotenv, e \in SourceMappings.env :
        reset([yaml |-> y, dotenv |-> d, env |-> e])

\* The updates of one replace_sources call: a mapping for each source named.
UpdateSets ==
    UNION {{[source \in touched |-> choice[source]] :
                choice \in [SourceNames -> Mappings]} :
           touched \in (SUBSET SourceNames) \ {{}}}

Updates == {updates \in UpdateSets :
                \A source \in DOMAIN updates : updates[source] \in SourceMappings[source]}

ReplaceSources == \E updates \in Updates : replace_sources(updates)

(***************************************************************************)
(* section_path.py, registry.py                                            *)
(*                                                                         *)
(* A raw path is a string, modelled as a sequence of tokens: the separator *)
(* ".", the blank " ", and words.  A path part is the sequence of tokens   *)
(* left after stripping, and a canonical path is a tuple of parts.         *)
(***************************************************************************)
Sep == "."

Blank == " "

RECURSIVE split(_)
\* str.split("."): the parts between separators; a string without one is one part.
split(raw) ==
    IF \A i \in 1..Len(raw) : raw[i] # Sep THEN <<raw>>
    ELSE LET at == CHOOSE i \in 1..Len(raw) :
                      raw[i] = Sep /\ \A j \in 1..(i - 1) : raw[j] # Sep
         IN  <<SubSeq(raw, 1, at - 1)>> \o split(SubSeq(raw, at + 1, Len(raw)))

RECURSIVE strip(_)
\* str.strip(): leading and trailing blanks removed.
strip(part) ==
    IF part = <<>> THEN part
    ELSE IF Head(part) = Blank THEN strip(Tail(part))
    ELSE IF part[Len(part)] = Blank THEN strip(SubSeq(part, 1, Len(part) - 1))
    ELSE part

casefold_word(word) ==
    CASE word = "FastAPIEx" -> "fastapiex"
      [] word = "FASTAPIEX" -> "fastapiex"
      [] OTHER -> word

casefold(part) == [i \in 1..Len(part) |-> casefold_word(part[i])]

\* to_snake_case("Fastapiex")
CONTROL_ROOT == "fastapiex"

upper(word) == IF casefold_word(word) = "fastapiex" THEN "FASTAPIEX" ELSE word

\* CONTROL_ROOT.upper()
RESERVED_ROOT == upper(CONTROL_ROOT)

\* The SettingsRegistrationError raised, or the parts.
split_dotted_path(raw_path) ==
    LET parts == [i \in 1..Len(split(raw_path)) |-> strip(split(raw_path)[i])]
    IN  IF \E i \in 1..Len(parts) : parts[i] = <<>>
        THEN [ok |-> FALSE, error |-> "invalid section path"]
        ELSE [ok |-> TRUE, path |-> parts]

\* Mutant: the reserved root is compared as it is spelled.
canonicalize_path_as_spelled(raw_path) ==
    LET raw_parts == split_dotted_path(raw_path)
    IN  IF ~raw_parts.ok THEN raw_parts
        ELSE IF raw_parts.path[1] = <<RESERVED_ROOT>>
             THEN [ok |-> FALSE, error |-> "reserved prefix"]
             ELSE raw_parts

canonicalize_path(raw_path) ==
    LET raw_parts == split_dotted_path(raw_path)
    IN  IF ~raw_parts.ok THEN raw_parts
        ELSE IF casefold(raw_parts.path[1]) = casefold(<<RESERVED_ROOT>>)
             THEN [ok |-> FALSE, error |-> "reserved prefix"]
             ELSE raw_parts

SectionRecord(raw_path, model, kind, owner_module, owner_identity) ==
    [raw_path |-> raw_path, model |-> model, kind |-> kind,
     owner_module |-> owner_module, owner_identity |-> owner_identity]

SettingsSection(record) ==
    [raw_path |-> record.raw_path, path |-> canonicalize_path(record.raw_path).path,
     model |-> record.model, kind |-> record.kind,
     owner_module |-> record.owner_module, owner_identity |-> record.owner_identity]

\* _reindex over the given records: the SettingsRegistrationError raised, or
\* the new path index.
reindex(records) ==
    IF \E model \in DOMAIN records : ~canonicalize_path(records[model].raw_path).ok
    THEN [ok |-> FALSE, error |-> "invalid or reserved path"]
    ELSE IF \E m1, m2 \in DOMAIN records :
                /\ m1 # m2
                /\ canonicalize_path(records[m1].raw_path).path
                     = canonicalize_path(records[m2].raw_path).path
         THEN [ok |-> FALSE, error |-> "duplicate section"]
         ELSE LET paths == {canonicalize_path(records[model].raw_path).path :
                               model \in DOMAIN records}
                  model_at(path) ==
                      CHOOSE model \in DOMAIN records :
                          canonicalize_path(records[model].raw_path).path = path
              IN  [ok |-> TRUE,
                   sections |-> [path \in paths |-> SettingsSection(records[model_at(path)])]]

\* Mutant: every record of the owner is deleted, whatever its generation.
drop_stale_any_generation(records, owner_module, owner_identity) ==
    LET kept == {model \in DOMAIN records : records[model].owner_module # owner_module}
    IN  [model \in kept |-> records[model]]

\* Mutant: the records of the other generations of the owner are kept.
drop_stale_none(records, owner_module, owner_identity) == records

\* The records left once those of another generation of the owner are deleted.
drop_stale(records, owner_module, owner_identity) ==
    LET kept == {model \in DOMAIN records :
                    \/ records[model].owner_module # owner_module
                    \/ records[model].owner_identity = owner_identity}
    IN  [model \in kept |-> records[model]]

\* Mutant: the except clause re-raises without restoring.
rollback_skipped(previous, current) == current

\* The except clause of register_section: the field is set back to the value
\* saved before the try block.
rollback(previous, current) == previous

\* owner_identity=None of unregister_owner; generations are positive.
NoIdentity == 0

\* The records left once those matching the owner (and generation) are deleted.
drop_owner(records, owner_module, owner_identity) ==
    LET kept == {model \in DOMAIN records :
                    \/ records[model].owner_module # owner_module
                    \/ (owner_identity # NoIdentity /\ records[model].owner_identity # owner_identity)}
    IN  [model \in kept |-> records[model]]

(***************************************************************************)
(* SettingsRegistry as a state machine.  reg_call records the last call    *)
(* and whether it raised; reg_pre the fields when that call started.       *)
(***************************************************************************)
VARIABLES records_by_model, sections_by_path, reg_version, reg_call, reg_pre, reg_ncalls

\* sys.modules: the identity (the generation) of every imported module by
\* name.  It changes only when a module is imported, replaced or removed.
VARIABLE sys_modules

\* The threads inside a call of the registry: for each, the call, the
\* statement it is at and its local variables.  No thread is inside a call
\* where calls are taken one at a time.
VARIABLE reg_threads

rvars == <<records_by_model, sections_by_path, reg_version, reg_call, reg_pre, reg_ncalls,
           sys_modules, reg_threads>>

Models == {"A", "B"}

Classes == Models \cup {"NotAModel"}

SectionKinds == {"object", "map"}

RawPaths ==
    {<<"app">>, <<Blank, "app">>, <<"app", Sep, "db">>,
     <<"FastAPIEx", Sep, "db">>, <<"app", Sep, Blank>>}

\* Class and kind of a declaration, the invalid ones included.
Declared ==
    {<<"A", "object">>, <<"A", "map">>, <<"B", "object">>,
     <<"NotAModel", "object">>, <<"A", "list">>}

\* Owner module and generation of a declaration.
Owners == {<<"m1", 1>>, <<"m1", 2>>, <<"m2", 1>>}

RegistryFields ==
    [records |-> records_by_model, sections |-> sections_by_path, version |-> reg_version]

\* The modules imported when the program starts: m1 and m2 in their first
\* generation and sys, which is always there.
StartModules == [name \in {"m1", "m2", "sys"} |-> 1]

RegistryInit ==
    /\ records_by_model = EmptyFn
    /\ sections_by_path = EmptyFn
    /\ reg_version = 0
    /\ reg_call = [op |-> "init", args |-> EmptyFn, raised |-> FALSE]
    /\ reg_pre = [records |-> EmptyFn, sections |-> EmptyFn, version |-> 0]
    /\ reg_ncalls = 0
    /\ sys_modules = StartModules
    /\ reg_threads = EmptyFn

\* SettingsRegistry.register_section on a registry with the fields of reg:
\* the fields it leaves, raised telling the SettingsRegistrationError.
registered(reg, raw_path, cls, kind, owner_module, owner_identity) ==
    LET kept == drop_stale(reg.records, owner_module, owner_identity)
        candidate == SectionRecord(raw_path, cls, kind, owner_module, owner_identity)
        stored == Put(kept, cls, candidate)
        indexed == reindex(stored)
    IN  IF cls \notin Models \/ kind \notin SectionKinds
        THEN \* raised before anything is touched
             [records |-> reg.records, sections |-> reg.sections,
              version |-> reg.version, raised |-> TRUE]
        ELSE IF cls \in DOMAIN kept /\ kept[cls] = candidate
        THEN \* identical record: early return
             [records |-> kept, sections |-> reg.sections,
              version |-> reg.version, raised |-> FALSE]
        ELSE IF indexed.ok
        THEN [records |-> stored, sections |-> indexed.sections,
              version |-> reg.version + 1, raised |-> FALSE]
        ELSE \* _reindex raised before assigning the index or the version
             [records |-> rollback(reg.records, stored),
              sections |-> rollback(reg.sections, reg.sections),
              version |-> rollback(reg.version, reg.version), raised |-> TRUE]

\* SettingsRegistry.unregister_owner on a registry with the fields of reg.
unregistered(reg, owner_module, owner_identity) ==
    LET kept == drop_owner(reg.records, owner_module, owner_identity)
        removed == kept # reg.records
        indexed == reindex(kept)
    IN  IF ~removed
        THEN [records |-> kept, sections |-> reg.sections,
              version |-> reg.version, raised |-> FALSE]
        ELSE IF indexed.ok
        THEN [records |-> kept, sections |-> indexed.sections,
              version |-> reg.version + 1, raised |-> FALSE]
        ELSE [records |-> kept, sections |-> reg.sections,
              version |-> reg.version, raised |-> TRUE]

\* A call of the registry: the fields it leaves, the call recorded.
registry_call(op, args, done) ==
    /\ reg_ncalls < RegMaxCalls
    /\ reg_ncalls' = reg_ncalls + 1
    /\ reg_pre' = RegistryFields
    /\ reg_call' = [op |-> op, args |-> args, raised |-> done.raised]
    /\ records_by_model' = done.records
    /\ sections_by_path' = done.sections
    /\ reg_version' = done.version
    /\ UNCHANGED <<sys_modules, reg_threads>>

register_section(raw_path, cls, kind, owner_module, owner_identity) ==
    registry_call("register_section",
                  [raw_path |-> raw_path, cls |-> cls, kind |-> kind,
                   owner_module |-> owner_module, owner_identity |-> owner_identity],
                  registered(RegistryFields, raw_path, cls, kind, owner_module,
                             owner_identity))

unregister_owner(owner_module, owner_identity) ==
    registry_call("unregister_owner",
                  [owner_module |-> owner_module, owner_identity |-> owner_identity],
                  unregistered(RegistryFields, owner_module, owner_identity))

RegisterSection ==
    \E raw_path \in RawPaths, declared \in Declared, owner \in Owners :
        register_section(raw_path, declared[1], declared[2], owner[1], owner[2])

UnregisterOwner ==
    \E owner_module \in {"m1", "m2"}, owner_identity \in {NoIdentity, 1, 2} :
        unregister_owner(owner_module, owner_identity)

(***************************************************************************)
(* SettingsRegistry called by several threads.  The registry takes no      *)
(* lock, so a thread may be switched out between two statements of         *)
(* register_section, unregister_owner and _reindex; each action below is   *)
(* one statement (a loop being taken as one) of the thread t.              *)
(***************************************************************************)
Threads == {"t1", "t2"}

RegisterCall(raw_path, cls, kind, owner_module, owner_identity) ==
    [op |-> "register_section", raw_path |-> raw_path, cls |-> cls, kind |-> kind,
     owner_module |-> owner_module, owner_identity |-> owner_identity]

UnregisterCall(owner_module, owner_identity) ==
    [op |-> "unregister_owner", raw_path |-> <<>>, cls |-> "", kind |-> "",
     owner_module |-> owner_module, owner_identity |-> owner_identity]

\* A thread about to make the call: its local variables are unset.
Calling(thread_call) ==
    [call |-> thread_call, pc |-> "call", previous_records |-> EmptyFn,
     previous_sections |-> EmptyFn, previous_version |-> 0, new_sections |-> EmptyFn,
     raised |-> FALSE]

\* Thread t moves on as next_thread tells; the other threads stay.
thread_moves(t, next_thread) ==
    /\ reg_threads' = [reg_threads EXCEPT ![t] = next_thread]
    /\ UNCHANGED <<reg_call, reg_pre, reg_ncalls, sys_modules>>

\* register_section up to previous_records = dict(self._records_by_model):
\* the two checks of the arguments raise before anything is read.
RegisterEnter(t) ==
    /\ reg_threads[t].pc = "call"
    /\ reg_threads[t].call.op = "register_section"
    /\ IF reg_threads[t].call.cls \notin Models \/ reg_threads[t].call.kind \notin SectionKinds
       THEN thread_moves(t, [reg_threads[t] EXCEPT !.pc = "done", !.raised = TRUE])
       ELSE thread_moves(t, [reg_threads[t] EXCEPT !.pc = "save_sections",
                                                   !.previous_records = records_by_model])
    /\ UNCHANGED <<records_by_model, sections_by_path, reg_version>>

\* previous_sections = self._sections_by_path
SaveSections(t) ==
    /\ reg_threads[t].pc = "save_sections"
    /\ thread_moves(t, [reg_threads[t] EXCEPT !.pc = "save_version",
                                              !.previous_sections = sections_by_path])
    /\ UNCHANGED <<records_by_model, sections_by_path, reg_version>>

\* previous_version = self._version
SaveVersion(t) ==
    /\ reg_threads[t].pc = "save_version"
    /\ thread_moves(t, [reg_threads[t] EXCEPT !.pc = "drop_stale",
                                              !.previous_version = reg_version])
    /\ UNCHANGED <<records_by_model, sections_by_path, reg_version>>

\* The loop deleting the records of the other generations of the owner.
DropStale(t) ==
    /\ reg_threads[t].pc = "drop_stale"
    /\ records_by_model' = drop_stale(records_by_model, reg_threads[t].call.owner_module,
                                      reg_threads[t].call.owner_identity)
    /\ thread_moves(t, [reg_threads[t] EXCEPT !.pc = "store"])
    /\ UNCHANGED <<sections_by_path, reg_version>>

\* existing == candidate returns; else self._records_by_model[model] = candidate
StoreCandidate(t) ==
    /\ reg_threads[t].pc = "store"
    /\ IF /\ reg_threads[t].call.cls \in DOMAIN records_by_model
          /\ records_by_model[reg_threads[t].call.cls]
               = SectionRecord(reg_threads[t].call.raw_path, reg_threads[t].call.cls,
                               reg_threads[t].call.kind, reg_threads[t].call.owner_module,
                               reg_threads[t].call.owner_identity)
       THEN /\ thread_moves(t, [reg_threads[t] EXCEPT !.pc = "done"])
            /\ UNCHANGED records_by_model
       ELSE /\ thread_moves(t, [reg_threads[t] EXCEPT !.pc = "reindex"])
            /\ records_by_model' =
                 Put(records_by_model, reg_threads[t].call.cls,
                     SectionRecord(reg_threads[t].call.raw_path, reg_threads[t].call.cls,
                                   reg_threads[t].call.kind, reg_threads[t].call.owner_module,
                                   reg_threads[t].call.owner_identity))
    /\ UNCHANGED <<sections_by_path, reg_version>>

\* unregister_owner up to if removed: the loop deleting the owner's records.
UnregisterEnter(t) ==
    /\ reg_threads[t].pc = "call"
    /\ reg_threads[t].call.op = "unregister_owner"
    /\ records_by_model' = drop_owner(records_by_model, reg_threads[t].call.owner_module,
                                      reg_threads[t].call.owner_identity)
    /\ thread_moves(t, [reg_threads[t] EXCEPT
                           !.pc = IF records_by_model' # records_by_model
                                  THEN "reindex" ELSE "done"])
    /\ UNCHANGED <<sections_by_path, reg_version>>

\* The loop of _reindex over self._records_by_model.values(): new_sections,
\* or the SettingsRegistrationError, which register_section catches.
ReindexRecords(t) ==
    /\ reg_threads[t].pc = "reindex"
    /\ IF reindex(records_by_model).ok
       THEN thread_moves(t, [reg_threads[t] EXCEPT
                                !.pc = "assign_sections",
                                !.new_sections = reindex(records_by_model).sections])
       ELSE thread_moves(t, [reg_threads[t] EXCEPT
                                !.pc = IF reg_threads[t].call.op = "register_section"
                                       THEN "restore_records" ELSE "done",
                                !.raised = TRUE])
    /\ UNCHANGED <<records_by_model, sections_by_path, reg_version>>

\* self._sections_by_path = new_sections
AssignSections(t) ==
    /\ reg_threads[t].pc = "assign_sections"
    /\ sections_by_path' = reg_threads[t].new_sections
    /\ thread_moves(t, [reg_threads[t] EXCEPT !.pc = "bump_version"])
    /\ UNCHANGED <<records_by_model, reg_version>>

\* self._version += 1
BumpVersion(t) ==
    /\ reg_threads[t].pc = "bump_version"
    /\ reg_version' = reg_version + 1
    /\ thread_moves(t, [reg_threads[t] EXCEPT !.pc = "done"])
    /\ UNCHANGED <<records_by_model, sections_by_path>>

\* except SettingsRegistrationError: self._records_by_model = previous_records
RestoreRecords(t) ==
    /\ reg_threads[t].pc = "restore_records"
    /\ records_by_model' = rollback(reg_threads[t].previous_records, records_by_model)
    /\ thread_moves(t, [reg_threads[t] EXCEPT !.pc = "restore_sections"])
    /\ UNCHANGED <<sections_by_path, reg_version>>

\* self._sections_by_path = previous_sections
RestoreSections(t) ==
    /\ reg_threads[t].pc = "restore_sections"
    /\ sections_by_path' = rollback(reg_threads[t].previous_sections, sections_by_path)
    /\ thread_moves(t, [reg_threads[t] EXCEPT !.pc = "restore_version"])
    /\ UNCHANGED <<records_by_model, reg_version>>

\* self._version = previous_version; raise
RestoreVersion(t) ==
    /\ reg_threads[t].pc = "restore_version"
    /\ reg_version' = rollback(reg_threads[t].previous_version, reg_version)
    /\ thread_moves(t, [reg_threads[t] EXCEPT !.pc = "done"])
    /\ UNCHANGED <<records_by_model, sections_by_path>>

(***************************************************************************)
(* controls.py, loader.py, env_keypath.py, env_value_parser.py,            *)
(* control_model.py, control_resolver.py, raw_projection.py                *)
(*                                                                         *)
(* Strings are atoms; an optional string that the code strips to None when *)
(* empty is "" for None.                                                   *)
(***************************************************************************)
NoStr == ""

\* str.split("__") of the environment keys and prefixes of the model.
split_env_key(text) ==
    CASE text = "FASTAPIEX__SETTINGS__RELOAD" -> <<"FASTAPIEX", "SETTINGS", "RELOAD">>
      [] text = "FASTAPIEX__SETTINGS__PATH" -> <<"FASTAPIEX", "SETTINGS", "PATH">>
      [] text = "APP__NAME" -> <<"APP", "NAME">>
      [] text = "APP__" -> <<"APP", "">>
      [] text = "FASTAPIEX__SETTINGS__CASE_SENSITIVE" ->
            <<"FASTAPIEX", "SETTINGS", "CASE_SENSITIVE">>
      [] text = "fastapiex__settings__env_prefix" -> <<"fastapiex", "settings", "env_prefix">>
      [] OTHER -> <<text>>

\* str.lower() / str.casefold() of the words of the model.
lower(word) ==
    CASE word = "FASTAPIEX" -> "fastapiex"
      [] word = "FastAPIEx" -> "fastapiex"
      [] word = "SETTINGS" -> "settings"
      [] word = "Settings" -> "settings"
      [] word = "RELOAD" -> "reload"
      [] word = "PATH" -> "path"
      [] word = "APP" -> "app"
      [] word = "NAME" -> "name"
      [] word = "Name" -> "name"
      [] word = "App" -> "app"
      [] word = "Reload" -> "reload"
      [] word = "CASE_SENSITIVE" -> "case_sensitive"
      [] OTHER -> word

lower_parts(parts) == [i \in 1..Len(parts) |-> lower(parts[i])]

\* env_key.upper().startswith(CONTROL_ENV_PREFIX), CONTROL_ENV_PREFIX being
\* CONTROL_ROOT.upper() followed by "__".
has_control_prefix(parts) == Len(parts) > 1 /\ lower(parts[1]) = CONTROL_ROOT

\* key_to_parts: the path parts of an environment key under the prefix and
\* case policy, <<>> when the key is skipped (None in the code).
key_to_parts(env_key, prefix, case_sensitive) ==
    LET key_parts == split_env_key(env_key)
        reserved == has_control_prefix(key_parts)
        \* a prefix "P__" splits into <<"P", "">>: the key starts with it when
        \* its leading parts are the prefix's and something follows
        prefix_parts == SubSeq(split_env_key(prefix), 1, Len(split_env_key(prefix)) - 1)
        starts == /\ Len(key_parts) >= Len(prefix_parts)
                  /\ IF case_sensitive
                     THEN SubSeq(key_parts, 1, Len(prefix_parts)) = prefix_parts
                     ELSE lower_parts(SubSeq(key_parts, 1, Len(prefix_parts)))
                              = lower_parts(prefix_parts)
        rest == SubSeq(key_parts, Len(prefix_parts) + 1, Len(key_parts))
        raw_parts == IF reserved THEN key_parts
                     ELSE IF prefix # NoStr
                          THEN IF ~starts \/ has_control_prefix(rest) THEN <<>> ELSE rest
                          ELSE key_parts
    IN  IF raw_parts = <<>> \/ \E i \in 1..Len(raw_parts) : raw_parts[i] = ""
        THEN <<>>
        ELSE IF reserved THEN lower_parts(raw_parts)
        ELSE IF case_sensitive THEN raw_parts
        ELSE lower_parts(raw_parts)

\* parse_env_value: booleans are recognised, other texts of the model stay text.
parse_env_value(raw) ==
    IF raw.t # "s" THEN raw
    ELSE IF raw.v \in {"1", "true", "yes", "on"} THEN Bool("true")
    ELSE IF raw.v \in {"0", "false", "no", "off"} THEN Bool("false")
    ELSE raw

\* Path(text) / "settings.yaml" for the directories of the model.
settings_file_in(directory) ==
    IF directory = "conf" THEN "conf/settings.yaml" ELSE DefaultSettingsPath

\* normalize_override_path: NoStr for None.
normalize_override_path(raw) ==
    IF raw = NoStr THEN NoStr
    ELSE IF raw \in {"settings.yaml", "b.yaml", "c.yaml", "conf/settings.yaml"} THEN raw
    ELSE settings_file_in(raw)

\* _parse_bool of control_model.py
parse_bool(raw, default) ==
    IF raw = None THEN default
    ELSE IF raw.t = "b" THEN raw.v = "true"
    ELSE IF raw.t = "s" /\ raw.v \in {"1", "true", "yes", "on"} THEN TRUE
    ELSE IF raw.t = "s" /\ raw.v \in {"0", "false", "no", "off"} THEN FALSE
    ELSE default

\* _parse_reload_mode of control_model.py
parse_reload_mode(raw, default) ==
    LET raw_mode == IF raw = None THEN NoStr
                    ELSE IF raw.t = "b" THEN (IF raw.v = "true" THEN "on_change" ELSE "off")
                    ELSE IF raw.t = "s" THEN raw.v
                    ELSE "?"
    IN  IF raw = None THEN default
        ELSE IF raw_mode = "always" THEN "always"
        ELSE IF raw_mode \in {"on_change", "on-change", "onchange", "true", "1", "yes"}
             THEN "on_change"
        ELSE IF raw_mode \in {"off", "false", "0", "no"} THEN "off"
        ELSE default

\* _read_optional_str: the text, NoStr when absent or not a string.
read_optional_str(snapshot, keys) ==
    LET raw == Lookup(snapshot, keys)
    IN  IF raw # None /\ raw.t = "s" THEN raw.v ELSE NoStr

\* read_control_model: the control record read from a control snapshot whose
\* keys are already folded.
read_control_model(snapshot) ==
    [path |-> read_optional_str(snapshot, <<"fastapiex", "settings", "path">>),
     base_dir |-> read_optional_str(snapshot, <<"fastapiex", "base_dir">>),
     env_prefix |-> read_optional_str(snapshot, <<"fastapiex", "settings", "env_prefix">>),
     case_sensitive |->
         parse_bool(Lookup(snapshot, <<"fastapiex", "settings", "case_sensitive">>), FALSE),
     reload |->
         parse_reload_mode(Lookup(snapshot, <<"fastapiex", "settings", "reload">>), "off")]

SettingsSource(settings_path, env_prefix, case_sensitive, reload_mode) ==
    [settings_path |-> settings_path, env_prefix |-> env_prefix,
     case_sensitive |-> case_sensitive, reload_mode |-> reload_mode]

resolve_settings_path_from_control(explicit_settings_path, control_settings_path, control_base_dir, fallback_settings_path) ==
    IF explicit_settings_path # NoStr THEN explicit_settings_path
    ELSE IF normalize_override_path(control_settings_path) # NoStr
         THEN normalize_override_path(control_settings_path)
    ELSE IF control_base_dir # NoStr THEN settings_file_in(control_base_dir)
    ELSE IF fallback_settings_path # NoStr THEN fallback_settings_path
    ELSE DefaultSettingsPath

\* An argument that is not given (None).
NotGiven == "<not given>"

\* resolve_env_prefix on a given prefix: stripped; the prefixes of the model
\* carry no blanks and none starts with the reserved prefix.
resolve_env_prefix(prefix) == prefix

build_settings_source_from_control(control, explicit_settings_path, explicit_env_prefix, fallback_settings_path) ==
    SettingsSource(
        resolve_settings_path_from_control(explicit_settings_path, control.path,
                                           control.base_dir, fallback_settings_path),
        resolve_env_prefix(IF explicit_env_prefix # NotGiven THEN explicit_env_prefix
                           ELSE control.env_prefix),
        control.case_sensitive,
        control.reload)

\* LiveConfigStore.entries(): one entry per path and source holding it.
entries(slots_) ==
    {[path |-> path, source |-> source, rev |-> slots_[path][source].rev,
      value |-> slots_[path][source].value] :
        <<path, source>> \in {ps \in (DOMAIN slots_) \X SourceNames :
                                  ps[2] \in DOMAIN slots_[ps[1]]}}

\* _ControlProjectionPolicy.project: the projected path, <<>> when skipped.
control_project_path(entry) ==
    IF entry.source = "yaml"
    THEN IF lower(entry.path[1]) # CONTROL_ROOT THEN <<>> ELSE lower_parts(entry.path)
    ELSE IF Len(entry.path) # 1 THEN <<>>
    ELSE LET raw_parts == split_env_key(entry.path[1])
         IN  IF ~has_control_prefix(raw_parts) THEN <<>>
             ELSE IF \E i \in 1..Len(raw_parts) : raw_parts[i] = "" THEN <<>>
             ELSE lower_parts(raw_parts)

\* _SettingsProjectionPolicy.project: the projected path, <<>> when skipped.
settings_project_path(entry, env_prefix, case_sensitive) ==
    IF entry.source = "yaml" THEN entry.path
    ELSE IF Len(entry.path) # 1 THEN <<>>
    ELSE key_to_parts(entry.path[1], env_prefix, case_sensitive)

projected_value(entry) ==
    IF entry.source = "yaml" THEN entry.value ELSE parse_env_value(entry.value)

\* _collect_projected_winners over the entries paired with the path the
\* projector gives them: per projected path the entry of greatest
\* (rev, priority).
collect_projected_winners(projected) ==
    LET kept == {p \in projected : p.path # <<>>}
        meta(p) == <<p.entry.rev, SOURCE_PRIORITY[p.entry.source]>>
        best(path) ==
            CHOOSE p \in kept :
                /\ p.path = path
                /\ \A other \in kept :
                      other.path = path => ~MetaLess(meta(p), meta(other))
    IN  [path \in {p.path : p \in kept} |->
            <<best(path).entry.rev, SOURCE_PRIORITY[best(path).entry.source],
              projected_value(best(path).entry)>>]

materialize_control_snapshot(entries_) ==
    build_materialized_snapshot(collect_projected_winners(
        {[entry |-> entry, path |-> control_project_path(entry)] : entry \in entries_}))

effective_winners(entries_, env_prefix, case_sensitive) ==
    collect_projected_winners(
        {[entry |-> entry, path |-> settings_project_path(entry, env_prefix, case_sensitive)] :
            entry \in entries_})

materialize_effective_snapshot(entries_, env_prefix, case_sensitive) ==
    build_materialized_snapshot(effective_winners(entries_, env_prefix, case_sensitive))

RECURSIVE set_nested_all(_, _, _)
\* load_env_overrides(prefix="", case_sensitive=False): every variable nested
\* under its lower-cased parts with its parsed value.
set_nested_all(env, keys, overrides) ==
    IF keys = {} THEN overrides
    ELSE LET key == CHOOSE k \in keys : TRUE
             parts == key_to_parts(key, NoStr, FALSE)
         IN  set_nested_all(env, keys \ {key},
                            IF parts = <<>> THEN overrides
                            ELSE set_nested_force(overrides, parts,
                                                  parse_env_value(Scalar(env[key]))))

build_env_controls_snapshot(env) == Dict(set_nested_all(env, DOMAIN env, EmptyFn))

\* file_state: the resolved path, whether the file exists, and its freshness
\* token (st_mtime_ns and st_size, one number here); path NoStr is None.
file_state(files_, mtimes_, path) ==
    IF path = NoStr \/ path \notin DOMAIN files_ THEN <<path, FALSE, 0>>
    ELSE <<path, TRUE, mtimes_[path]>>

\* find_dotenv_path(settings_path.parent): the .env file next to the settings
\* file when there is one, NoStr for None.
find_dotenv_path(files_, settings_path) ==
    IF settings_path \in FilePaths /\ ".env" \in DOMAIN files_ THEN ".env" ELSE NoStr

\* load_dotenv_snapshot_raw: the raw text of every key of the .env file.
load_dotenv_snapshot_raw(files_, dotenv_path) ==
    IF dotenv_path = NoStr THEN EmptyFn ELSE files_[dotenv_path]

\* A settings file whose document is a plain string, not a mapping.
ScalarDocument == Scalar("text")

\* load_yaml_settings: {} for a missing file, else the mapping of the file;
\* load_yaml_raises tells the TypeError for a document that is no mapping.
load_yaml_settings(files_, path) == IF path \in DOMAIN files_ THEN files_[path] ELSE EmptyFn

load_yaml_raises(files_, path) == path \in DOMAIN files_ /\ files_[path] = ScalarDocument

(***************************************************************************)
(* The typed root.  A validated model is [t |-> "o", cls, kids]; its       *)
(* fields are strings, the key of a one-word path part being that word.    *)
(* A validation that fails gives [t |-> "err", errors], errors holding the *)
(* location, kind and input of every failure as pydantic reports them.     *)
(***************************************************************************)
Obj(cls, kids) == [t |-> "o", cls |-> cls, kids |-> kids]

Invalid(errors) == [t |-> "err", errors |-> errors]

\* The settings classes: A declares name: str = "demo", B declares
\* name: str; both also derive from the marker class Shared.
ModelFields ==
    [A |-> [name |-> [required |-> FALSE, default |-> "demo"]],
     B |-> [name |-> [required |-> TRUE, default |-> NoStr]]]

\* The classes each class is a subclass of.
Bases ==
    [A |-> {"A", "Shared", "BaseModel", "object"},
     B |-> {"B", "Shared", "BaseModel", "object"},
     dict |-> {"dict", "object"}]

issubclass(cls, target) == target \in Bases[cls]

\* The key a one-word part or segment names; no key of the model has blanks.
part_key(part) == IF Len(part) = 1 THEN part[1] ELSE "<several words>"

\* _TreeNode.children of the node at prefix, as path parts.
tree_children(sections, prefix) ==
    {p[Len(prefix) + 1] :
        p \in {q \in DOMAIN sections :
                  Len(q) > Len(prefix) /\ SubSeq(q, 1, Len(prefix)) = prefix}}

\* _TreeNode.decl of the node at prefix, None when nothing is declared there.
tree_decl(sections, prefix) ==
    IF prefix \in DOMAIN sections THEN sections[prefix] ELSE None

is_map_node(sections, prefix) ==
    tree_decl(sections, prefix) # None /\ tree_decl(sections, prefix).kind = "map"

\* base_model of _build_object_model: the declared class, BaseModel without one.
tree_base_model(sections, prefix) ==
    IF tree_decl(sections, prefix) = None THEN "BaseModel"
    ELSE tree_decl(sections, prefix).model

own_fields(cls) == IF cls \in DOMAIN ModelFields THEN DOMAIN ModelFields[cls] ELSE {}

\* model_fields of the dynamic model built for the node at prefix: the fields
\* of its base model, one field per child, and the control field of the root.
tree_fields(sections, prefix) ==
    own_fields(tree_base_model(sections, prefix))
        \cup {part_key(c) : c \in tree_children(sections, prefix)}
        \cup (IF prefix = <<>> THEN {CONTROL_ROOT} ELSE {})

child_part(sections, prefix, name) ==
    CHOOSE c \in tree_children(sections, prefix) : part_key(c) = name

is_child(sections, prefix, name) ==
    \E c \in tree_children(sections, prefix) : part_key(c) = name

\* Mutant: a section may be nested under a map section.
insert_section_unchecked(sections, path) == NoStr

\* _insert_section of the section at path, the sections being inserted in
\* ascending order of path: the SettingsRegistrationError raised, NoStr
\* for none.  A path sorts after its prefixes, so the node reached has no
\* children yet and, the index holding one section per path, no decl.
insert_section(sections, path) ==
    IF \E k \in 0..(Len(path) - 1) : is_map_node(sections, SubSeq(path, 1, k))
    THEN "map section cannot have nested section"
    ELSE NoStr

RECURSIVE build_object_model(_, _)
\* _build_object_model of the node at prefix: the SettingsRegistrationError
\* raised, NoStr for none.
build_object_model(sections, prefix) ==
    LET base_model == tree_base_model(sections, prefix)
        children == tree_children(sections, prefix)
    IN  IF is_map_node(sections, prefix)
        THEN "internal error: map node must be emitted as mapping field"
        ELSE IF base_model # "BaseModel"
                /\ \E child \in children : part_key(child) \in own_fields(base_model)
        THEN "nested declaration conflicts with existing field"
        ELSE IF \E child \in children :
                    /\ ~is_map_node(sections, Append(prefix, child))
                    /\ build_object_model(sections, Append(prefix, child)) # NoStr
        THEN "nested declaration conflicts with existing field"
        ELSE NoStr

\* The SettingsRegistrationError build_root_settings_model raises on the
\* sections, NoStr for none.
assembly_error(sections) ==
    IF \E path \in DOMAIN sections : insert_section(sections, path) # NoStr
    THEN "map section cannot have nested section"
    ELSE build_object_model(sections, <<>>)

\* The model or the failure, given the validated fields.
collect(node) ==
    IF \E k \in DOMAIN node.kids : node.kids[k].t = "err"
    THEN Invalid(UNION {node.kids[k].errors :
                           k \in {j \in DOMAIN node.kids : node.kids[j].t = "err"}})
    ELSE node

\* pydantic on a field annotated str.
validate_str(loc, given) ==
    IF given.t = "s" THEN given ELSE Invalid({<<loc, "string_type", given>>})

\* pydantic on a field of class cls that is no nested section.
validate_field(cls, name, loc, kids) ==
    IF name \in DOMAIN kids THEN validate_str(Append(loc, name), kids[name])
    ELSE IF ModelFields[cls][name].required
         THEN Invalid({<<Append(loc, name), "missing", Dict(kids)>>})
         ELSE Scalar(ModelFields[cls][name].default)

\* pydantic on an item of a map section: the class itself, extra keys ignored.
validate_class(cls, loc, given) ==
    IF given.t # "m" THEN Invalid({<<loc, "model_type", given>>})
    ELSE collect(Obj(cls, [name \in own_fields(cls) |->
                              validate_field(cls, name, loc, given.kids)]))

\* pydantic on the control field dict[str, Any] of the root.
validate_control(loc, kids) ==
    IF CONTROL_ROOT \notin DOMAIN kids THEN EmptyDict
    ELSE IF kids[CONTROL_ROOT].t = "m" THEN kids[CONTROL_ROOT]
    ELSE Invalid({<<Append(loc, CONTROL_ROOT), "dict_type", kids[CONTROL_ROOT]>>})

RECURSIVE validate_tree(_, _, _, _)
\* model_validate of the dynamic model of the node at prefix on the given
\* value, None for a field that is absent (its default_factory then builds
\* the model from nothing).
validate_tree(sections, prefix, loc, given) ==
    IF is_map_node(sections, prefix)
    THEN IF given = None THEN EmptyDict
         ELSE IF given.t # "m" THEN Invalid({<<loc, "dict_type", given>>})
         ELSE collect(Dict([k \in DOMAIN given.kids |->
                  validate_class(sections[prefix].model, Append(loc, k), given.kids[k])]))
    ELSE IF given = None THEN validate_tree(sections, prefix, <<>>, EmptyDict)
    ELSE IF given.t # "m" THEN Invalid({<<loc, "model_type", given>>})
    ELSE LET cls == tree_base_model(sections, prefix)
         IN  collect(Obj(cls,
                 [name \in tree_fields(sections, prefix) |->
                     IF is_child(sections, prefix, name)
                     THEN validate_tree(sections,
                              Append(prefix, child_part(sections, prefix, name)),
                              Append(loc, name),
                              IF name \in DOMAIN given.kids THEN given.kids[name] ELSE None)
                     ELSE IF name \in own_fields(cls)
                          THEN validate_field(cls, name, loc, given.kids)
                          ELSE validate_control(loc, given.kids)]))

\* The keys of the dict the materialized snapshot holds at prefix come from
\* the winners written into it: those beneath prefix written after every
\* winner that put a plain value on the way to prefix.
written_into(winners, prefix) ==
    {w \in DOMAIN winners :
        /\ Len(w) > Len(prefix)
        /\ SubSeq(w, 1, Len(prefix)) = prefix
        /\ \A i \in 1..Len(prefix) :
              SubSeq(prefix, 1, i) \in DOMAIN winners
                  => SortKeyLess(winners, SubSeq(prefix, 1, i), w)}

\* The winner whose write first put key into the dict at prefix.
first_write(winners, prefix, key) ==
    LET writes == {w \in written_into(winners, prefix) : w[Len(prefix) + 1] = key}
    IN  CHOOSE w \in writes : \A other \in writes \ {w} : SortKeyLess(winners, w, other)

RECURSIVE dict_items(_, _, _)
\* raw.items() of the dict at prefix: its keys in insertion order.
dict_items(winners, prefix, keys) ==
    IF keys = {} THEN <<>>
    ELSE LET key == CHOOSE k \in keys :
                        \A other \in keys \ {k} :
                            SortKeyLess(winners, first_write(winners, prefix, k),
                                        first_write(winners, prefix, other))
         IN  <<key>> \o dict_items(winners, prefix, keys \ {key})

RECURSIVE merge_nested_mapping(_, _)
merge_nested_mapping(target, incoming) ==
    [k \in (DOMAIN target) \cup (DOMAIN incoming) |->
        IF k \notin DOMAIN incoming THEN target[k]
        ELSE IF k \in DOMAIN target /\ target[k].t = "m" /\ incoming[k].t = "m"
             THEN Dict(merge_nested_mapping(target[k].kids, incoming[k].kids))
             ELSE incoming[k]]

assign_projected_value(target, key, value) ==
    IF key \in DOMAIN target /\ target[key].t = "m" /\ value.t = "m"
    THEN Put(target, key, Dict(merge_nested_mapping(target[key].kids, value.kids)))
    ELSE Put(target, key, value)

\* _resolve_field_name: the field a key is given to, NoStr for None.
resolve_field_name(fields, input_key, case_sensitive) ==
    IF input_key \in fields THEN input_key
    ELSE IF case_sensitive THEN NoStr
    ELSE LET matches == {name \in fields : lower(name) = lower(input_key)}
         IN  IF Cardinality(matches) # 1 THEN NoStr ELSE CHOOSE name \in matches : TRUE

\* _resolve_control_root_field_name, NoStr for None.
resolve_control_root_field_name(fields, input_key) ==
    LET matches == {name \in fields : lower(name) = lower(CONTROL_ROOT)}
    IN  IF lower(input_key) # lower(CONTROL_ROOT) \/ Cardinality(matches) # 1 THEN NoStr
        ELSE CHOOSE name \in matches : TRUE

RECURSIVE project_control_items(_, _, _, _)
RECURSIVE project_control_mapping(_, _, _)
\* _project_control_mapping: every key case-folded, the mappings that fold
\* onto one key merged in the order of raw.items().
project_control_mapping(raw, winners, at) ==
    project_control_items(raw, winners, at, dict_items(winners, at, DOMAIN raw.kids))

project_control_items(raw, winners, at, items) ==
    IF items = <<>> THEN EmptyFn
    ELSE LET key == items[Len(items)]
             value == raw.kids[key]
             projected == project_control_items(raw, winners, at,
                                                SubSeq(items, 1, Len(items) - 1))
             canonical_key == lower(key)
         IN  IF value.t = "m"
             THEN LET nested == Dict(project_control_mapping(value, winners, Append(at, key)))
                  IN  IF canonical_key \in DOMAIN projected /\ projected[canonical_key].t = "m"
                      THEN Put(projected, canonical_key,
                               Dict(merge_nested_mapping(projected[canonical_key].kids,
                                                         nested.kids)))
                      ELSE Put(projected, canonical_key, nested)
             ELSE Put(projected, canonical_key, value)

RECURSIVE project_items_to_model(_, _, _, _, _, _, _)
RECURSIVE project_mapping_to_model(_, _, _, _, _, _)
RECURSIVE project_model_field_value(_, _, _, _, _, _, _)
\* _project_mapping_to_model; root_model is the tree node at prefix when
\* tree holds, the class cls of a map section's items otherwise.
project_mapping_to_model(raw, winners, at, sections, root_model, case_sensitive) ==
    project_items_to_model(raw, winners, at, sections, root_model, case_sensitive,
                           dict_items(winners, at, DOMAIN raw.kids))

\* _project_model_field_value for the field name of root_model.
project_model_field_value(value, winners, at, sections, root_model, name, case_sensitive) ==
    IF value.t # "m" \/ ~root_model.tree \/ ~is_child(sections, root_model.prefix, name)
    THEN value
    ELSE LET child == Append(root_model.prefix,
                             child_part(sections, root_model.prefix, name))
         IN  IF is_map_node(sections, child)
             \* _project_mapping_values_to_model
             THEN Dict([k \in DOMAIN value.kids |->
                          IF value.kids[k].t = "m"
                          THEN Dict(project_mapping_to_model(
                                        value.kids[k], winners, Append(at, k), sections,
                                        [tree |-> FALSE, cls |-> sections[child].model],
                                        case_sensitive))
                          ELSE value.kids[k]])
             ELSE Dict(project_mapping_to_model(value, winners, at, sections,
                                                [tree |-> TRUE, prefix |-> child],
                                                case_sensitive))

\* the loop of _project_mapping_to_model over raw.items(), with
\* _project_entry_to_model and _project_control_root_entry.
project_items_to_model(raw, winners, at, sections, root_model, case_sensitive, items) ==
    IF items = <<>> THEN EmptyFn
    ELSE LET key == items[Len(items)]
             value == raw.kids[key]
             projected == project_items_to_model(raw, winners, at, sections, root_model,
                              case_sensitive, SubSeq(items, 1, Len(items) - 1))
             fields == IF root_model.tree THEN tree_fields(sections, root_model.prefix)
                       ELSE own_fields(root_model.cls)
             allow_control_root == root_model.tree /\ root_model.prefix = <<>>
             control_field == IF allow_control_root
                              THEN resolve_control_root_field_name(fields, key)
                              ELSE NoStr
             field_name == resolve_field_name(fields, key, case_sensitive)
         IN  IF control_field # NoStr
             THEN assign_projected_value(projected, control_field,
                      IF value.t # "m" THEN value
                      ELSE Dict(project_control_mapping(value, winners, Append(at, key))))
             ELSE IF field_name = NoStr
             THEN assign_projected_value(projected, key, value)
             ELSE assign_projected_value(projected, field_name,
                      project_model_field_value(value, winners, Append(at, key), sections,
                                                root_model, field_name, case_sensitive))

\* project_snapshot_for_validation of the snapshot the winners materialize as.
project_snapshot_for_validation(winners, sections, case_sensitive) ==
    Dict(project_mapping_to_model(build_materialized_snapshot(winners), winners, <<>>,
                                  sections, [tree |-> TRUE, prefix |-> <<>>],
                                  case_sensitive))

\* _validate_effective_snapshot_locked: the typed root, or the
\* SettingsValidationError.
validate(winners, sections, case_sensitive) ==
    validate_tree(sections, <<>>, <<>>,
                  project_snapshot_for_validation(winners, sections, case_sensitive))

(***************************************************************************)
(* path_lookup.py and query_engine.py.  A lookup path is a sequence of     *)
(* tokens like a section path; an exception is [t |-> "raise", exc,        *)
(* message].                                                               *)
(***************************************************************************)
Raise(exc, message) == [t |-> "raise", exc |-> exc, message |-> message]

\* For a target or field that is None, and for the default that is not given.
NoText == <<"<None>">>

NoDefault == [t |-> "no default"]

ResolveRequest(api, target, field, default, has_default) ==
    [api |-> api, target |-> target, field |-> field, default |-> default,
     has_default |-> has_default]

\* The targets: None, a string, a class, and an object that is neither.
NoTarget == [kind |-> "none"]

StrTarget(text) == [kind |-> "str", text |-> text]

TypeTarget(cls) == [kind |-> "type", cls |-> cls]

OtherTarget == [kind |-> "other"]

\* ResolveRequest.cache_key
cache_key(request) == <<request.api, request.target, request.field>>

\* _split_lookup_path, before its check for empty parts.
split_lookup_path(path) == [i \in 1..Len(split(path)) |-> strip(split(path)[i])]

resolve_mapping_value(mapping, segment, case_sensitive) ==
    LET key == part_key(segment)
        folded_matches == {k \in DOMAIN mapping.kids : lower(k) = lower(key)}
    IN  IF case_sensitive
        THEN IF key \in DOMAIN mapping.kids THEN mapping.kids[key]
             ELSE Raise("KeyError", <<segment>>)
        ELSE IF Cardinality(folded_matches) = 1
             THEN mapping.kids[CHOOSE k \in folded_matches : TRUE]
             ELSE Raise("KeyError", <<segment>>)

\* Mutant: the first of the folded matches is taken.
resolve_model_field_first_match(model, segment, case_sensitive) ==
    LET key == part_key(segment)
        matches == {name \in DOMAIN model.kids : lower(name) = lower(key)}
    IN  IF matches # {}
        THEN model.kids[CHOOSE name \in matches :
                            \A other \in matches : KeyRank[name] <= KeyRank[other]]
        ELSE Raise("KeyError", <<segment>>)

resolve_model_field(model, segment, case_sensitive) ==
    LET key == part_key(segment)
        matches == {name \in DOMAIN model.kids : lower(name) = lower(key)}
    IN  IF case_sensitive
        THEN IF key \in DOMAIN model.kids THEN model.kids[key]
             ELSE Raise("KeyError", <<segment>>)
        ELSE IF Cardinality(matches) # 1 THEN Raise("KeyError", <<segment>>)
             ELSE model.kids[CHOOSE name \in matches : TRUE]

RECURSIVE walk_segments(_, _, _, _)
\* the loop of resolve_lookup_path over the segments left
walk_segments(current, segments, path, effective_case_sensitive) ==
    IF current.t = "raise" \/ segments = <<>> THEN current
    ELSE IF current.t = "m"
         THEN walk_segments(resolve_mapping_value(current, Head(segments),
                                                  effective_case_sensitive),
                            Tail(segments), path, effective_case_sensitive)
    ELSE IF current.t = "o"
         THEN walk_segments(resolve_model_field(current, Head(segments),
                                                effective_case_sensitive),
                            Tail(segments), path, effective_case_sensitive)
    ELSE Raise("KeyError", <<path>>)

\* Mutant: the control namespace follows the case policy like any other.
resolve_lookup_path_by_policy(root, path, case_sensitive) ==
    LET segments == split_lookup_path(path)
    IN  IF \E i \in 1..Len(segments) : segments[i] = <<>> THEN Raise("KeyError", <<path>>)
        ELSE walk_segments(root, segments, path, case_sensitive)

resolve_lookup_path(root, path, case_sensitive) ==
    LET segments == split_lookup_path(path)
        reserved_namespace == lower(part_key(segments[1])) = "fastapiex"
    IN  IF \E i \in 1..Len(segments) : segments[i] = <<>> THEN Raise("KeyError", <<path>>)
        ELSE walk_segments(root, segments, path, case_sensitive /\ ~reserved_namespace)

section_matches_target_type(section, target_type) ==
    LET candidate_types == IF section.kind = "map" THEN {section.model, "dict"}
                           ELSE {section.model}
    IN  \E candidate \in candidate_types : issubclass(candidate, target_type)

RECURSIVE path_text(_)
\* SettingsSection.path_text: ".".join(path)
path_text(path) ==
    IF Len(path) = 1 THEN path[1] ELSE path[1] \o <<Sep>> \o path_text(Tail(path))

RECURSIVE sorted(_)
\* sorted() of strings given as token sequences
sorted(texts) ==
    IF texts = {} THEN <<>>
    ELSE LET least == CHOOSE t \in texts : \A other \in texts \ {t} : PathLess(t, other)
         IN  <<least>> \o sorted(texts \ {least})

\* resolve_type_target: the QueryMiss raised, or the path of the one section
\* that matches.
resolve_type_target(target_type, sections) ==
    LET candidates == {p \in DOMAIN sections :
                          section_matches_target_type(sections[p], target_type)}
    IN  IF candidates = {}
        THEN Raise("QueryMiss", <<"did not match any declared section", target_type>>)
        ELSE IF Cardinality(candidates) > 1
        THEN Raise("QueryMiss", <<"matched multiple sections", target_type,
                                  sorted({path_text(p) : p \in candidates})>>)
        ELSE [t |-> "section", path |-> CHOOSE p \in candidates : TRUE]

\* Mutant: a class target is walked under the case policy of the source.
resolve_target_value_by_policy(target, settings, sections, case_sensitive) ==
    IF target.kind = "none" THEN Raise("QueryMiss", <<"target is not provided">>)
    ELSE IF target.kind = "str"
    THEN IF strip(target.text) = <<>> THEN Raise("QueryMiss", <<"target is empty">>)
         ELSE resolve_lookup_path(settings, strip(target.text), case_sensitive)
    ELSE IF target.kind # "type"
    THEN Raise("QueryMiss", <<"target must be a string path or class">>)
    ELSE LET section == resolve_type_target(target.cls, sections)
         IN  IF section.t = "raise" THEN section
             ELSE resolve_lookup_path(settings, path_text(section.path), case_sensitive)

resolve_target_value(target, settings, sections, case_sensitive) ==
    IF target.kind = "none" THEN Raise("QueryMiss", <<"target is not provided">>)
    ELSE IF target.kind = "str"
    THEN IF strip(target.text) = <<>> THEN Raise("QueryMiss", <<"target is empty">>)
         ELSE resolve_lookup_path(settings, strip(target.text), case_sensitive)
    ELSE IF target.kind # "type"
    THEN Raise("QueryMiss", <<"target must be a string path or class">>)
    ELSE LET section == resolve_type_target(target.cls, sections)
         IN  IF section.t = "raise" THEN section
             ELSE resolve_lookup_path(settings, path_text(section.path), TRUE)

\* Mutant: the field is walked with exact keys, whatever the case policy.
evaluate_field_exact(request, value, case_sensitive) ==
    LET field == strip(request.field)
        found == IF request.field = NoText THEN value
                 ELSE IF field = <<>> THEN Raise("QueryMiss", <<"field is empty">>)
                 ELSE resolve_lookup_path(value, field, TRUE)
    IN  IF found.t # "raise" /\ request.api = "map" /\ found.t # "m"
        THEN Raise("QueryMiss", <<"resolved value is not a mapping">>)
        ELSE found

\* Mutant: the map API takes whatever the target and field lead to.
evaluate_field_any_value(request, value, case_sensitive) ==
    LET field == strip(request.field)
    IN  IF request.field = NoText THEN value
        ELSE IF field = <<>> THEN Raise("QueryMiss", <<"field is empty">>)
        ELSE resolve_lookup_path(value, field, case_sensitive)

\* evaluate_request once the target is resolved to value.
evaluate_field(request, value, case_sensitive) ==
    LET field == strip(request.field)
        found == IF request.field = NoText THEN value
                 ELSE IF field = <<>> THEN Raise("QueryMiss", <<"field is empty">>)
                 ELSE resolve_lookup_path(value, field, case_sensitive)
    IN  IF found.t # "raise" /\ request.api = "map" /\ found.t # "m"
        THEN Raise("QueryMiss", <<"resolved value is not a mapping">>)
        ELSE found

evaluate_request(request, settings, sections, case_sensitive) ==
    LET value == resolve_target_value(request.target, settings, sections, case_sensitive)
    IN  IF value.t = "raise" THEN value
        ELSE evaluate_field(request, value, case_sensitive)

resolve_default(request) ==
    IF request.api = "map" /\ request.default.t # "m"
    THEN Raise("SettingsResolveError", <<"default value for SettingsMap must be a mapping">>)
    ELSE request.default

\* build_root_settings_model(sections)
build_root_settings_model(sections) == [sections |-> sections]

(***************************************************************************)
(* SettingsManager as a state machine.  The manager's store is the         *)
(* LiveConfigStore above (mgr_live_config tells whether it was created);   *)
(* files and environ are the surroundings; mgr_call records the last       *)
(* public call and the error it raised ("" for none), mgr_pre the fields   *)
(* and the last call as they were when that call started.  call_site is   *)
(* the call of GetSettings or GetSettingsMap the client code evaluates,    *)
(* None where the client resolves nothing.                                 *)
(***************************************************************************)
VARIABLES mgr_source, mgr_live_config, mgr_source_states, mgr_schema,
          mgr_registry_version, mgr_snapshot_live_version, mgr_settings,
          mgr_source_sync_specs, mgr_missing_cache, mgr_validation_fallback_warnings,
          mgr_call, mgr_pre, mgr_ncalls, mgr_module_snapshot,
          files, mtimes, environ, nchanges, call_site

\* self._lock as the threads see it: for each thread "out" of the with
\* block of a public entry, "in" it with the lock acquired, or "ran" once
\* the block is done and the lock is still to be released.  No thread is
\* told apart where the calls are taken one at a time.
VARIABLE mgr_lock

mvars == <<mgr_source, mgr_live_config, mgr_source_states, mgr_schema,
           mgr_registry_version, mgr_snapshot_live_version, mgr_settings,
           mgr_source_sync_specs, mgr_missing_cache, mgr_validation_fallback_warnings,
           mgr_call, mgr_pre, mgr_ncalls, mgr_module_snapshot,
           files, mtimes, environ, nchanges, call_site, mgr_lock>>

vars == <<svars, rvars, mvars>>

\* What a call gives besides the fields it leaves: the error it raised (NoStr
\* for none) with its message, the value it returned, and the warnings it
\* logged (cycles of path controls, fallbacks to a default after a failed
\* validation).
Outcome(raised, message, value, cycle_warnings, fallback_warnings) ==
    [raised |-> raised, message |-> message, value |-> value,
     cycle_warnings |-> cycle_warnings, fallback_warnings |-> fallback_warnings,
     path_switches |-> <<>>, shared |-> FALSE, steps |-> <<>>]

Quiet == Outcome(NoStr, <<>>, None, 0, 0)

\* The record of a call: its name, its arguments and its outcome.
CallRecord(op, args, outcome) ==
    [op |-> op, args |-> args, raised |-> outcome.raised, message |-> outcome.message,
     value |-> outcome.value, cycle_warnings |-> outcome.cycle_warnings,
     fallback_warnings |-> outcome.fallback_warnings,
     path_switches |-> outcome.path_switches, shared |-> outcome.shared,
     steps |-> outcome.steps]

\* The fields of the manager and of its store as a call works on them; flag
\* carries the boolean a step returns, the fields of Outcome what the call
\* gives, validation_error the failures of a SettingsValidationError,
\* path_switches the settings paths the call switched to, in order, shared
\* whether the value returned is the very object the typed root holds, steps
\* the steps the call ran, in order.
Manager ==
    [source |-> mgr_source, live_config |-> mgr_live_config,
     slots |-> slots, rev |-> rev, version |-> version,
     source_states |-> mgr_source_states, schema |-> mgr_schema,
     registry_version |-> mgr_registry_version,
     snapshot_live_version |-> mgr_snapshot_live_version,
     settings |-> mgr_settings, source_sync_specs |-> mgr_source_sync_specs,
     missing_cache |-> mgr_missing_cache,
     validation_fallback_warnings |-> mgr_validation_fallback_warnings,
     module_snapshot |-> mgr_module_snapshot,
     flag |-> FALSE, validation_error |-> {},
     raised |-> NoStr, message |-> <<>>, value |-> None,
     cycle_warnings |-> 0, fallback_warnings |-> 0, path_switches |-> <<>>,
     shared |-> FALSE, steps |-> <<>>]

\* A step of a call: "sync" (the sources are read for the store, by
\* _sync_sources_for_mode_locked or by the implicit initialisation),
\* "converge" (_converge_controls_locked), "path_sync" (the sync of a path
\* switch inside the convergence), "rediscover" (_maybe_rediscover_modules_locked
\* or _rediscover_delta_locked), "refresh" (_refresh_runtime_locked, with the
\* plan it built) and "query" (the read of the typed root).
Step(kind, plan) == [kind |-> kind, plan |-> plan]

stepped(m, kind) == [m EXCEPT !.steps = Append(@, Step(kind, None))]

resolve_source(settings_path, env_prefix) ==
    build_settings_source_from_control(
        read_control_model(build_env_controls_snapshot(environ)),
        normalize_override_path(settings_path), env_prefix, NoStr)

\* Mutant: only the settings paths are compared.
source_conflict_by_path(current, requested) ==
    current # None /\ current.settings_path # requested.settings_path

\* self._source is not None and self._source != source
source_conflict(current, requested) == current # None /\ current # requested

with_store(m, done) ==
    [m EXCEPT !.slots = done.slots, !.rev = done.rev, !.version = done.version,
              !.flag = done.changed]

\* _SourceSyncSpec; the reader is named by the method it is.
SourceSyncSpec(read_snapshot, sync_on_reload, sync_on_path_switch) ==
    [read_snapshot |-> read_snapshot, sync_on_reload |-> sync_on_reload,
     sync_on_path_switch |-> sync_on_path_switch]

\* _register_default_source_syncs
DefaultSourceSyncs ==
    [source \in SourceNames |->
        CASE source = "yaml" -> SourceSyncSpec("_read_yaml_snapshot_locked", TRUE, TRUE)
          [] source = "dotenv" -> SourceSyncSpec("_read_dotenv_snapshot_locked", FALSE, FALSE)
          [] OTHER -> SourceSyncSpec("_read_env_snapshot_locked", FALSE, FALSE)]

\* _read_source_snapshot_locked with the three readers: the payload and the
\* source state (None for the environment).
read_source_snapshot_locked(m, source) ==
    LET reader == m.source_sync_specs[source].read_snapshot
        dotenv_path == find_dotenv_path(files, m.source.settings_path)
    IN  CASE reader = "_read_yaml_snapshot_locked" ->
                [payload |-> load_yaml_settings(files, m.source.settings_path),
                 state |-> file_state(files, mtimes, m.source.settings_path)]
          [] reader = "_read_dotenv_snapshot_locked" ->
                [payload |-> load_dotenv_snapshot_raw(files, dotenv_path),
                 state |-> file_state(files, mtimes, dotenv_path)]
          [] OTHER ->
                [payload |-> load_env_snapshot_raw(environ), state |-> None]

\* The error a reader of _read_source_snapshot_locked raises, NoStr for none.
read_snapshot_error(m, source) ==
    IF /\ m.source_sync_specs[source].read_snapshot = "_read_yaml_snapshot_locked"
       /\ load_yaml_raises(files, m.source.settings_path)
    THEN "TypeError" ELSE NoStr

\* self._active_live_config_locked() where there is no store.
no_live_config(m) == [m EXCEPT !.raised = "live config store is not initialized"]

\* _reload_live_sources_locked: every source read, the store reset; a
\* reader that raises leaves the store and the source states as they were.
reload_live_sources_locked(m) ==
    LET store == IF m.live_config THEN [slots |-> m.slots, rev |-> m.rev, version |-> m.version]
                 ELSE [slots |-> EmptyFn, rev |-> 0, version |-> 0]
    IN  IF \E source \in SourceNames : read_snapshot_error(m, source) # NoStr
        THEN [m EXCEPT !.raised = "TypeError",
                       !.message = <<"settings file must contain a mapping at top-level">>]
        ELSE
        [with_store(m, store_reset(store,
                [source \in SourceNames |-> read_source_snapshot_locked(m, source).payload]))
         EXCEPT
            !.live_config = TRUE,
            !.source_states =
                [source \in SourceNames |-> read_source_snapshot_locked(m, source).state]]

\* _sync_source_locked
sync_source_locked(m, source, force) ==
    IF ~m.live_config THEN no_live_config(m)
    ELSE IF read_snapshot_error(m, source) # NoStr
    THEN [m EXCEPT !.raised = "TypeError",
                   !.message = <<"settings file must contain a mapping at top-level">>]
    ELSE IF /\ ~force
       /\ read_source_snapshot_locked(m, source).state # None
       /\ m.source_states[source] = read_source_snapshot_locked(m, source).state
    THEN [m EXCEPT !.flag = FALSE]
    ELSE [with_store(m, store_replace_sources(
                            [slots |-> m.slots, rev |-> m.rev, version |-> m.version],
                            [s \in {source} |-> read_source_snapshot_locked(m, source).payload]))
          EXCEPT
             !.source_states[source] = read_source_snapshot_locked(m, source).state]

\* Mutant: no source is selected.
selected_never(spec, selector) == FALSE

\* Mutant: every registered source is selected.
selected_always(spec, selector) == TRUE

\* The selector of _sync_selected_sources_locked applied to a spec.
selected(spec, selector) ==
    IF selector = "sync_on_reload" THEN spec.sync_on_reload ELSE spec.sync_on_path_switch

\* One turn of the loop of _sync_selected_sources_locked: changed is the
\* flag so far.
sync_selected_source(m, source, force, selector, changed) ==
    IF m.raised # NoStr THEN m
    ELSE IF selected(m.source_sync_specs[source], selector)
    THEN [sync_source_locked(m, source, force) EXCEPT !.flag = @ \/ changed]
    ELSE [m EXCEPT !.flag = changed]

\* The turn of a source given the manager the former turn left.
sync_selected_next(m, source, force, selector) ==
    sync_selected_source(m, source, force, selector, m.flag)

\* _sync_selected_sources_locked, the sources in source_order().
sync_selected_sources_locked(m, force, selector) ==
    sync_selected_next(
        sync_selected_next(
            sync_selected_source(m, SOURCE_ORDER[1], force, selector, FALSE),
            SOURCE_ORDER[2], force, selector),
        SOURCE_ORDER[3], force, selector)

build_source_from_controls_locked(m) ==
    build_settings_source_from_control(
        read_control_model(materialize_control_snapshot(entries(m.slots))),
        NoStr, NotGiven, m.source.settings_path)

\* Mutant: the loop stops after the first path switch.
apply_control_source_one_hop(m, next_source) ==
    IF next_source.settings_path # m.source.settings_path
    THEN [sync_selected_sources_locked(
              [m EXCEPT !.source = next_source,
                        !.path_switches = Append(@, next_source.settings_path)],
              TRUE, "sync_on_path_switch") EXCEPT !.flag = TRUE]
    ELSE IF next_source # m.source
         THEN [m EXCEPT !.source = next_source, !.flag = TRUE]
         ELSE m

converge_controls_one_hop(m, visited_paths, changed) ==
    apply_control_source_one_hop([m EXCEPT !.flag = changed],
                                 build_source_from_controls_locked(m))

RECURSIVE converge_controls_locked(_, _, _)
\* Mutant: on a revisited path the next source is taken as it is, its
\* settings path included.
apply_control_source_step_unfrozen(m, next_source, visited_paths, changed) ==
    IF next_source.settings_path # m.source.settings_path
    THEN IF next_source.settings_path \in visited_paths
         THEN [m EXCEPT !.source = next_source, !.flag = TRUE,
                        !.cycle_warnings = @ + 1]
         ELSE converge_controls_locked(
                  sync_selected_sources_locked(
                      [m EXCEPT !.source = next_source,
                                !.path_switches = Append(@, next_source.settings_path)],
                      TRUE, "sync_on_path_switch"),
                  visited_paths \cup {next_source.settings_path}, TRUE)
    ELSE IF next_source # m.source
         THEN [m EXCEPT !.source = next_source, !.flag = TRUE]
         ELSE [m EXCEPT !.flag = changed]

\* _apply_control_source_step_locked; where the code returns should_continue
\* the loop of _converge_controls_locked goes on.  flag is the changed that
\* _converge_controls_locked returns.
apply_control_source_step_locked(m, next_source, visited_paths, changed) ==
    IF next_source.settings_path # m.source.settings_path
    THEN IF next_source.settings_path \in visited_paths
         THEN [m EXCEPT !.source = [next_source EXCEPT !.settings_path = m.source.settings_path],
                        !.flag = changed \/ ([next_source EXCEPT
                                                 !.settings_path = m.source.settings_path]
                                             # m.source),
                        !.cycle_warnings = @ + 1]
         ELSE converge_controls_locked(
                  sync_selected_sources_locked(
                      stepped([m EXCEPT !.source = next_source,
                                        !.path_switches = Append(@, next_source.settings_path)],
                              "path_sync"),
                      TRUE, "sync_on_path_switch"),
                  visited_paths \cup {next_source.settings_path}, TRUE)
    ELSE IF next_source # m.source
         THEN [m EXCEPT !.source = next_source, !.flag = TRUE]
         ELSE [m EXCEPT !.flag = changed]

\* One turn of the loop of _converge_controls_locked; without a store
\* _active_live_config_locked raises, and an error of the sync of a path
\* switch ends the loop.
converge_controls_locked(m, visited_paths, changed) ==
    IF m.raised # NoStr THEN m
    ELSE IF ~m.live_config THEN no_live_config(m)
    ELSE apply_control_source_step_locked(m, build_source_from_controls_locked(m),
                                          visited_paths, changed)

\* _sync_reload_sources_locked
sync_reload_sources_locked(m, force) ==
    IF ~m.live_config THEN no_live_config(m)
    ELSE sync_selected_sources_locked(m, force, "sync_on_reload")

\* Mutant: under always the sources are synced by their tokens, as under
\* on_change.
maybe_auto_reload_by_token(m) ==
    IF m.source.reload_mode = "off" THEN [m EXCEPT !.flag = FALSE]
    ELSE sync_selected_sources_locked(m, FALSE, "sync_on_reload")

\* _maybe_auto_reload_locked
maybe_auto_reload_locked(m) ==
    IF m.source.reload_mode = "off" THEN [m EXCEPT !.flag = FALSE]
    ELSE IF m.source.reload_mode = "always"
         THEN [sync_reload_sources_locked(m, TRUE) EXCEPT !.flag = TRUE]
         ELSE sync_reload_sources_locked(m, FALSE)

\* _sync_sources_for_mode_locked
sync_sources_for_mode_locked(m, mode) ==
    IF mode = "none" THEN [stepped(m, "sync") EXCEPT !.flag = FALSE]
    ELSE IF mode = "auto" THEN maybe_auto_reload_locked(stepped(m, "sync"))
    ELSE IF mode = "reload" THEN sync_reload_sources_locked(stepped(m, "sync"), TRUE)
    ELSE reload_live_sources_locked(stepped(m, "sync"))

\* _validate_effective_snapshot_locked
validate_effective_snapshot_locked(m) ==
    validate(effective_winners(entries(m.slots), m.source.env_prefix,
                               m.source.case_sensitive),
             m.schema.sections, m.source.case_sensitive)

\* Mutant: the live version of the refresh is not remembered.
refresh_validated_unremembered(ensured, validated) ==
    IF validated.t = "err"
    THEN [ensured EXCEPT !.raised = "SettingsValidationError",
                         !.validation_error = validated.errors]
    ELSE [ensured EXCEPT !.settings = validated]

\* _refresh_runtime_locked once the schema is ensured, given what the
\* validation gave: a SettingsValidationError leaves the settings and the
\* refreshed live version as they were.
refresh_validated(ensured, validated) ==
    IF validated.t = "err"
    THEN [ensured EXCEPT !.raised = "SettingsValidationError",
                         !.validation_error = validated.errors]
    ELSE [ensured EXCEPT !.settings = validated,
                         !.snapshot_live_version = ensured.version]

\* _refresh_runtime_locked with _build_refresh_plan_locked and _ensure_schema_locked
refresh_runtime_locked(m, force) ==
    LET registry_version == reg_version
        schema_outdated == m.schema = None \/ registry_version # m.registry_version
        live_outdated == m.version # m.snapshot_live_version
        should_refresh == force \/ schema_outdated \/ live_outdated \/ m.settings = None
        schema == IF schema_outdated THEN build_root_settings_model(sections_by_path)
                  ELSE m.schema
        ensured == [m EXCEPT !.schema = schema,
                             !.registry_version = IF schema_outdated THEN registry_version
                                                  ELSE @]
        plan == [force |-> force, registry_version |-> registry_version,
                 schema_version |-> m.registry_version, live_version |-> m.version,
                 snapshot_version |-> m.snapshot_live_version,
                 settings_missing |-> m.settings = None,
                 should_refresh |-> should_refresh]
    IN  IF ~should_refresh THEN [m EXCEPT !.steps = Append(@, Step("refresh", plan))]
        ELSE IF schema_outdated /\ assembly_error(sections_by_path) # NoStr
        THEN [m EXCEPT !.raised = "SettingsRegistrationError",
                       !.message = <<assembly_error(sections_by_path)>>,
                       !.steps = Append(@, Step("refresh", plan))]
        ELSE refresh_validated([ensured EXCEPT !.steps = Append(@, Step("refresh", plan))],
                               validate_effective_snapshot_locked(ensured))


\* Mutant: a manager without a source is initialised whoever asks.
ensure_source_implicitly(m, implicit) ==
    IF m.source # None THEN m
    ELSE reload_live_sources_locked([m EXCEPT !.source = resolve_source(NoStr, NotGiven),
                                              !.module_snapshot = sys_modules])

\* _ensure_source_locked: raised tells the RuntimeError, NoStr for none.
ensure_source_locked(m, implicit) ==
    IF m.source # None THEN m
    ELSE IF ~implicit THEN [m EXCEPT !.raised = "settings are not initialized"]
    ELSE reload_live_sources_locked(
             stepped([m EXCEPT !.source = resolve_source(NoStr, NotGiven),
                               !.module_snapshot = sys_modules], "sync"))

\* _maybe_rediscover_modules_locked where snapshot_imported_modules() gives
\* the snapshot the manager holds: it returns False and changes nothing (the
\* rediscovery of modules imported or removed since is RediscoverDelta).
maybe_rediscover_modules_locked(m) == stepped(m, "rediscover")

\* Mutant: the modules are rediscovered once the runtime is refreshed.
prepare_refresh_first(converged, force, rediscover_modules) ==
    IF rediscover_modules
    THEN maybe_rediscover_modules_locked(
             refresh_runtime_locked(converged, force \/ converged.flag))
    ELSE refresh_runtime_locked(converged, force \/ converged.flag)

\* _prepare_runtime_locked from the module rediscovery on, given the manager
\* after convergence (flag: controls_changed) and whether the refresh is
\* forced so far.
prepare_refresh(converged, force, rediscover_modules) ==
    IF converged.raised # NoStr THEN converged
    ELSE refresh_runtime_locked(
        IF rediscover_modules THEN maybe_rediscover_modules_locked(converged) ELSE converged,
        force \/ converged.flag)

\* Mutant: every preparation converges the controls.
prepare_converge_always(synced, force_refresh, rediscover_modules) ==
    IF synced.raised # NoStr THEN synced
    ELSE prepare_refresh(
        converge_controls_locked(stepped(synced, "converge"),
                                 {synced.source.settings_path}, FALSE),
        force_refresh \/ synced.flag, rediscover_modules)

\* Mutant: the convergence starts with no path visited.
prepare_converge_unvisited(synced, force_refresh, rediscover_modules) ==
    prepare_refresh(
        IF force_refresh \/ synced.flag \/ synced.settings = None
        THEN converge_controls_locked(stepped(synced, "converge"), {}, FALSE)
        ELSE [synced EXCEPT !.flag = FALSE],
        force_refresh \/ synced.flag, rediscover_modules)

\* _prepare_runtime_locked from the convergence on, given the manager after
\* the source sync (flag: source_force_refresh).
prepare_converge(synced, force_refresh, rediscover_modules) ==
    IF synced.raised # NoStr THEN synced
    ELSE prepare_refresh(
        IF force_refresh \/ synced.flag \/ synced.settings = None
        THEN converge_controls_locked(stepped(synced, "converge"),
                                      {synced.source.settings_path}, FALSE)
        ELSE [synced EXCEPT !.flag = FALSE],
        force_refresh \/ synced.flag, rediscover_modules)

\* _prepare_runtime_locked from the source sync on, given the manager after
\* _ensure_source_locked.
prepare_sync(ensured, source_sync, force_refresh, rediscover_modules) ==
    IF ensured.raised # NoStr THEN ensured
    ELSE prepare_converge(sync_sources_for_mode_locked(ensured, source_sync), force_refresh,
                          rediscover_modules)

\* _prepare_runtime_locked
prepare_runtime_locked(m, implicit_init, source_sync, force_refresh, rediscover_modules) ==
    prepare_sync(ensure_source_locked(m, implicit_init), source_sync, force_refresh,
                 rediscover_modules)

\* return self._active_settings_locked(), the read that ends init, get and
\* reload once the preparation returned.
active_settings_locked(prepared) ==
    IF prepared.raised # NoStr THEN prepared ELSE stepped(prepared, "query")

ManagerFields ==
    [source |-> mgr_source, live_config |-> mgr_live_config,
     slots |-> slots, rev |-> rev, version |-> version,
     source_states |-> mgr_source_states, schema |-> mgr_schema,
     registry_version |-> mgr_registry_version,
     snapshot_live_version |-> mgr_snapshot_live_version,
     settings |-> mgr_settings, source_sync_specs |-> mgr_source_sync_specs,
     missing_cache |-> mgr_missing_cache,
     validation_fallback_warnings |-> mgr_validation_fallback_warnings,
     call |-> mgr_call, files |-> files, mtimes |-> mtimes, environ |-> environ]

NoArgs == [settings_path |-> NoStr, env_prefix |-> NotGiven]

\* The block of the with statement is done by the thread that is in it.
with_block_ran(lock) == [t \in DOMAIN lock |-> IF lock[t] = "in" THEN "ran" ELSE lock[t]]

ManagerFieldsInit ==
    /\ mgr_source = None
    /\ mgr_live_config = FALSE
    /\ mgr_source_states = EmptyFn
    /\ mgr_schema = None
    /\ mgr_registry_version = -1
    /\ mgr_snapshot_live_version = -1
    /\ mgr_settings = None
    /\ mgr_source_sync_specs = DefaultSourceSyncs
    /\ mgr_missing_cache = EmptyFn
    /\ mgr_module_snapshot = EmptyFn
    /\ mgr_validation_fallback_warnings = {}
    /\ mgr_call = CallRecord("__init__", NoArgs, Quiet)
    /\ mgr_pre = [source |-> None, live_config |-> FALSE, slots |-> EmptyFn, rev |-> 0,
                  version |-> 0, source_states |-> EmptyFn, schema |-> None,
                  registry_version |-> -1, snapshot_live_version |-> -1,
                  settings |-> None, source_sync_specs |-> DefaultSourceSyncs,
                  missing_cache |-> EmptyFn, validation_fallback_warnings |-> {},
                  files |-> EmptyFn, mtimes |-> EmptyFn, environ |-> EmptyFn,
                  call |-> CallRecord("__init__", NoArgs, Quiet)]
    /\ mgr_ncalls = 0

ManagerInit == ManagerFieldsInit /\ mgr_lock = EmptyFn

\* The state a public call leaves: the fields of done, the call recorded.
returns(op, args, done) ==
    /\ mgr_ncalls < MgrMaxCalls
    /\ mgr_ncalls' = mgr_ncalls + 1
    /\ mgr_pre' = ManagerFields
    /\ mgr_call' = CallRecord(op, args, done)
    /\ mgr_source' = done.source
    /\ mgr_live_config' = done.live_config
    /\ slots' = done.slots
    /\ rev' = done.rev
    /\ version' = done.version
    /\ mgr_source_states' = done.source_states
    /\ mgr_schema' = done.schema
    /\ mgr_registry_version' = done.registry_version
    /\ mgr_snapshot_live_version' = done.snapshot_live_version
    /\ mgr_settings' = done.settings
    /\ mgr_missing_cache' = done.missing_cache
    /\ mgr_module_snapshot' = done.module_snapshot
    /\ mgr_validation_fallback_warnings' = done.validation_fallback_warnings
    /\ mgr_lock' = with_block_ran(mgr_lock)
    \* the manager reads the store through entries(), never materialize()
    /\ UNCHANGED <<cached_materialized, call, pre, ncalls, mgr_source_sync_specs,
                   files, mtimes, environ, nchanges, call_site>>

\* init once its source is resolved: the manager it leaves.
init_locked(m, source) ==
    IF source_conflict(m.source, source)
    THEN [m EXCEPT !.raised = "different source"]
    ELSE active_settings_locked(
             prepare_runtime_locked(
                 [m EXCEPT !.source = source,
                           !.module_snapshot = IF @ = EmptyFn THEN sys_modules ELSE @],
                 FALSE, "full", TRUE, FALSE))

init(settings_path, env_prefix) ==
    returns("init", [settings_path |-> settings_path, env_prefix |-> env_prefix],
            init_locked(Manager, resolve_source(settings_path, env_prefix)))

get == returns("get", NoArgs, active_settings_locked(prepare_runtime_locked(Manager, TRUE, "auto", FALSE, TRUE)))

\* Mutant: reload refreshes only what is outdated.
reload_unforced == returns("reload", NoArgs, active_settings_locked(prepare_runtime_locked(Manager, FALSE, "reload", FALSE, FALSE)))

\* reload(reason=)
reload == returns("reload", NoArgs, active_settings_locked(prepare_runtime_locked(Manager, FALSE, "reload", TRUE, FALSE)))

\* self._module_fingerprint, the snapshot_fingerprint of the module snapshot:
\* the hash of its sorted items, which tells the snapshots of the model apart.
module_fingerprint(m) == m.module_snapshot

\* _ResolveAttempt, with the manager the attempt leaves; query_error is the
\* message of the QueryMiss (<<>> for None), validation_error the failures
\* of the SettingsValidationError ({} for None).
ResolveAttempt(m, resolved, value, query_error, validation_error) ==
    [m |-> m, resolved |-> resolved, value |-> value, query_error |-> query_error,
     validation_error |-> validation_error]

\* _attempt_resolve_locked once the runtime is prepared.
attempt_evaluated(prepared, evaluated) ==
    IF evaluated.t = "raise"
    THEN ResolveAttempt(prepared, FALSE, None, evaluated.message, {})
    ELSE ResolveAttempt(prepared, TRUE, evaluated, <<>>, {})

\* _attempt_resolve_locked given the prepared runtime: a
\* SettingsValidationError is caught into the attempt; another error of
\* _prepare_runtime_locked (SettingsRegistrationError, TypeError) is not
\* caught and stays raised in the manager of the attempt.
attempt_prepared(prepared, request) ==
    IF prepared.raised = "SettingsValidationError"
    THEN ResolveAttempt([prepared EXCEPT !.raised = NoStr, !.validation_error = {}],
                        FALSE, None, <<>>, prepared.validation_error)
    ELSE IF prepared.raised # NoStr
    THEN ResolveAttempt(prepared, FALSE, None, <<>>, {})
    ELSE attempt_evaluated(stepped(prepared, "query"),
             evaluate_request(request, prepared.settings, sections_by_path,
                              prepared.source.case_sensitive))

attempt_resolve_locked(m, request, rediscover_modules) ==
    attempt_prepared(prepare_runtime_locked(m, TRUE, "auto", FALSE, rediscover_modules),
                     request)

\* self._rediscover_delta_locked() of the retry phase where
\* snapshot_imported_modules() gives the snapshot the manager holds: the
\* registry is left as it is and False is returned.
rediscover_delta_locked(m) == stepped(m, "rediscover")

\* _mark_missing_cache_locked
mark_missing_cache_locked(m, key) ==
    [m EXCEPT !.missing_cache = Put(@, key, <<reg_version, module_fingerprint(m)>>)]

\* Mutant: any entry of the request makes the retry phase skip.
should_skip_when_marked(m, key) == key \in DOMAIN m.missing_cache

\* _should_skip_rediscovery_locked
should_skip_rediscovery_locked(m, key) ==
    IF key \notin DOMAIN m.missing_cache THEN FALSE
    ELSE m.missing_cache[key] = <<reg_version, module_fingerprint(m)>>

\* The key under which a fallback warning is remembered.
warning_key(m, request, error) ==
    <<m.source.settings_path, cache_key(request), "SettingsValidationError", error>>

\* Mutant: the warning is logged at every fallback.
warn_validation_fallback_every_time(m, request, error) ==
    [m EXCEPT !.validation_fallback_warnings = @ \cup {warning_key(m, request, error)},
              !.fallback_warnings = @ + 1]

\* _warn_validation_fallback_once_locked
warn_validation_fallback_once_locked(m, request, error) ==
    IF warning_key(m, request, error) \in m.validation_fallback_warnings THEN m
    ELSE [m EXCEPT !.validation_fallback_warnings = @ \cup {warning_key(m, request, error)},
                   !.fallback_warnings = @ + 1]

\* the return or raise that ends a call
returned(m, value) ==
    IF value.t = "raise" THEN [m EXCEPT !.raised = value.exc, !.message = value.message]
    ELSE [m EXCEPT !.value = value]

\* Mutant: the value of a resolved attempt is returned as deepcopy(value).
attempt_value_copied(m, value) == [returned(m, value) EXCEPT !.shared = FALSE]

\* return attempt.value of _resolve_request: the value of a resolved attempt
\* is the object resolve_lookup_path reached in the typed root, handed over
\* as it is.
attempt_value(m, value) == [returned(m, value) EXCEPT !.shared = TRUE]

\* Mutant: a miss with a default applies the field to the default.
finalize_resolve_failure_field_on_default(m, request, query_error, validation_error) ==
    IF request.has_default
    THEN returned(IF validation_error # {}
                  THEN warn_validation_fallback_once_locked(m, request, validation_error)
                  ELSE m,
                  IF resolve_default(request).t = "raise" THEN resolve_default(request)
                  ELSE evaluate_field(request, resolve_default(request),
                                      m.source.case_sensitive))
    ELSE IF validation_error # {}
    THEN returned(m, Raise("SettingsValidationError", <<validation_error>>))
    ELSE IF query_error # <<>> THEN returned(m, Raise("SettingsResolveError", query_error))
    ELSE returned(m, Raise("SettingsResolveError", <<"settings value could not be resolved">>))

\* _finalize_resolve_failure_locked
finalize_resolve_failure_locked(m, request, query_error, validation_error) ==
    IF request.has_default
    THEN returned(IF validation_error # {}
                  THEN warn_validation_fallback_once_locked(m, request, validation_error)
                  ELSE m,
                  resolve_default(request))
    ELSE IF validation_error # {}
    THEN returned(m, Raise("SettingsValidationError", <<validation_error>>))
    ELSE IF query_error # <<>> THEN returned(m, Raise("SettingsResolveError", query_error))
    ELSE returned(m, Raise("SettingsResolveError", <<"settings value could not be resolved">>))

\* _resolve_request after the retry that follows the rediscovery.
resolve_retried(initial, retry, request) ==
    IF retry.m.raised # NoStr THEN retry.m
    ELSE IF retry.resolved
    THEN attempt_value([retry.m EXCEPT !.missing_cache =
                            IF cache_key(request) \in DOMAIN @
                            THEN Drop(@, cache_key(request))
                            ELSE @],
                       retry.value)
    ELSE finalize_resolve_failure_locked(
             IF retry.query_error # <<>>
             THEN mark_missing_cache_locked(retry.m, cache_key(request)) ELSE retry.m,
             request,
             IF retry.query_error # <<>> THEN retry.query_error ELSE initial.query_error,
             IF retry.validation_error # {} THEN retry.validation_error
             ELSE initial.validation_error)

\* _resolve_request after the first attempt.
resolve_attempted(initial, request) ==
    IF initial.m.raised # NoStr THEN initial.m
    ELSE IF initial.resolved THEN attempt_value(initial.m, initial.value)
    ELSE IF should_skip_rediscovery_locked(initial.m, cache_key(request))
    THEN finalize_resolve_failure_locked(initial.m, request, initial.query_error,
                                         initial.validation_error)
    ELSE resolve_retried(initial,
                         attempt_resolve_locked(rediscover_delta_locked(initial.m), request,
                                                FALSE),
                         request)

\* _resolve_request
resolve_request(m, request) ==
    resolve_attempted(attempt_resolve_locked(m, request, TRUE), request)

\* the isinstance check that ends resolve_settings_map
checked_mapping(done) ==
    IF done.raised = NoStr /\ done.value.t # "m"
    THEN [done EXCEPT !.raised = "SettingsResolveError",
                      !.message = <<"resolved value is not a mapping">>,
                      !.value = None]
    ELSE done

\* resolve_settings(target=, field=, default=, has_default=)
resolve(target, field, default, has_default) ==
    returns("resolve", ResolveRequest("settings", target, field, default, has_default),
            resolve_request(Manager,
                            ResolveRequest("settings", target, field, default, has_default)))

\* resolve_settings_map(target=, default=, has_default=)
resolve_map(target, default, has_default) ==
    returns("resolve_map", ResolveRequest("map", target, NoText, default, has_default),
            checked_mapping(resolve_request(Manager,
                                ResolveRequest("map", target, NoText, default, has_default))))

\* The arguments init is called with.
InitSettingsPaths == {NoStr, "settings.yaml", "b.yaml", "conf"}

InitEnvPrefixes == {NotGiven, "APP__"}

InitCall ==
    \E settings_path \in InitSettingsPaths, env_prefix \in InitEnvPrefixes :
        init(settings_path, env_prefix)

\* settings.app.name of a typed root.
AppName(settings) == settings.kids.app.kids.name.v

\* A step that is not a call of init, get or reload: recorded as the last
\* call with the fields as they were, and counted as a change.
recorded(op, args) ==
    /\ nchanges < MaxChanges
    /\ nchanges' = nchanges + 1
    /\ mgr_pre' = ManagerFields
    /\ mgr_call' = CallRecord(op, args, Quiet)
    /\ UNCHANGED <<svars, mgr_source, mgr_live_config, mgr_source_states, mgr_schema,
                   mgr_registry_version, mgr_snapshot_live_version, mgr_missing_cache,
                   mgr_validation_fallback_warnings, mgr_ncalls, mgr_module_snapshot,
                   call_site>>

changes(op, args) == recorded(op, args) /\ UNCHANGED mgr_lock

\* register_source_sync(source, read_snapshot=None, sync_on_reload=..., sync_on_path_switch=...)
\* for a source that is registered; a keyword argument is "None", "True" or
\* "False".
register_source_sync(source, sync_on_reload, sync_on_path_switch) ==
    /\ recorded("register_source_sync",
                [source |-> source, sync_on_reload |-> sync_on_reload,
                 sync_on_path_switch |-> sync_on_path_switch])
    /\ mgr_lock' = with_block_ran(mgr_lock)
    /\ mgr_source_sync_specs' =
           [mgr_source_sync_specs EXCEPT ![source] =
               SourceSyncSpec(
                   @.read_snapshot,
                   IF sync_on_reload = "None" THEN @.sync_on_reload
                   ELSE sync_on_reload = "True",
                   IF sync_on_path_switch = "None" THEN @.sync_on_path_switch
                   ELSE sync_on_path_switch = "True")]
    /\ UNCHANGED <<mgr_settings, files, mtimes, environ>>

RegisterSourceSync ==
    \E source \in {"dotenv", "env"} :
        /\ ~mgr_source_sync_specs[source].sync_on_reload
        /\ register_source_sync(source, "True", "None")

\* The file at path is rewritten with content; touched tells whether its
\* freshness token (st_mtime_ns, st_size) changes with it.
write_file(path, content, touched) ==
    /\ files[path] # content
    /\ changes("write_file", [path |-> path, touched |-> touched])
    /\ files' = [files EXCEPT ![path] = content]
    /\ mtimes' = [mtimes EXCEPT ![path] = IF touched THEN @ + 1 ELSE @]
    /\ UNCHANGED <<mgr_settings, mgr_source_sync_specs, environ>>

\* A rewrite of the settings file may keep its token (same size, same
\* st_mtime_ns); a rewrite of the .env file of the model changes it.
WriteFile ==
    \E path \in WrittenPaths, touched \in BOOLEAN :
        /\ path = ".env" => touched
        /\ \E content \in WrittenContents[path] : write_file(path, content, touched)

\* os.environ[key] = value
SetEnviron ==
    /\ DOMAIN SetVariable \cap DOMAIN environ = {}
    /\ changes("set_environ", SetVariable)
    /\ environ' = SetVariable @@ environ
    /\ UNCHANGED <<mgr_settings, mgr_source_sync_specs, files, mtimes>>

\* A caller assigns to a field of the record a read returned: the record is
\* the manager's own, so the manager's typed root changes with it.
Mutate ==
    /\ mgr_settings # None
    /\ AppName(mgr_settings) # "mutated"
    /\ changes("mutate", [field |-> "app.name"])
    /\ mgr_settings' = [mgr_settings EXCEPT !.kids.app.kids.name = Scalar("mutated")]
    /\ UNCHANGED <<mgr_source_sync_specs, files, mtimes, environ>>

(***************************************************************************)
(* discovery.py and the module rediscovery of the manager.                 *)
(***************************************************************************)
\* The generations a module goes through.
Generations == {1, 2, 3}

Declaration(raw_path, cls, kind) == [raw_path |-> raw_path, cls |-> cls, kind |-> kind]

\* The decorated classes in the namespace of every generation of a module:
\* m1 holds class A, declared at app, in its first two generations and
\* nothing in its third; m2 holds class B, declared as a map at peers in its
\* first generation and as an object at app in its second; sys holds none.
Namespace ==
    [name \in {"m1", "m2", "sys"} |->
        [generation \in Generations |->
            IF name = "m1" /\ generation \in {1, 2}
            THEN <<Declaration(<<"app">>, "A", "object")>>
            ELSE IF name = "m2" /\ generation = 1
            THEN <<Declaration(<<"peers">>, "B", "map")>>
            ELSE IF name = "m2" /\ generation = 2
            THEN <<Declaration(<<"app">>, "B", "object")>>
            ELSE <<>>]]

\* sorted(names)
sorted_names(names) == SelectSeq(<<"m1", "m2", "sys">>, LAMBDA name : name \in names)

\* diff_module_snapshots
diff_module_snapshots(previous, current) ==
    [added |-> sorted_names(DOMAIN current \ DOMAIN previous),
     removed |-> sorted_names(DOMAIN previous \ DOMAIN current),
     changed |-> sorted_names({name \in DOMAIN previous \cap DOMAIN current :
                                 previous[name] # current[name]})]

\* discover_module_declarations: the declarations of the module's namespace
\* with the module as their owner.
discover_module_declarations(module_name, module) ==
    [i \in 1..Len(Namespace[module_name][module]) |->
        [raw_path |-> Namespace[module_name][module][i].raw_path,
         cls |-> Namespace[module_name][module][i].cls,
         kind |-> Namespace[module_name][module][i].kind,
         owner_module |-> module_name, owner_identity |-> module]]

RECURSIVE unregister_removed(_, _)
\* for module_name in delta.removed: registry.unregister_owner(module_name)
unregister_removed(reg, names) ==
    IF names = <<>> \/ reg.raised THEN reg
    ELSE unregister_removed(unregistered(reg, Head(names), NoIdentity), Tail(names))

RECURSIVE unregister_changed(_, _, _)
\* Mutant: every generation of a changed module is unregistered but the one
\* the previous snapshot holds.
unregister_changed_but_old(reg, names, previous_snapshot) ==
    IF names = <<>> \/ reg.raised THEN reg
    ELSE unregister_changed(
             unregistered(reg, Head(names), (previous_snapshot[Head(names)] % 3) + 1),
             Tail(names), previous_snapshot)

\* for module_name in delta.changed:
\*     registry.unregister_owner(module_name, owner_identity=old_identity)
unregister_changed(reg, names, previous_snapshot) ==
    IF names = <<>> \/ reg.raised THEN reg
    ELSE unregister_changed(unregistered(reg, Head(names), previous_snapshot[Head(names)]),
                            Tail(names), previous_snapshot)

RECURSIVE register_declarations(_, _)
\* for ... in declarations: registry.register_section(...); a raise ends it.
register_declarations(reg, declarations) ==
    IF declarations = <<>> \/ reg.raised THEN reg
    ELSE register_declarations(
             registered(reg, Head(declarations).raw_path, Head(declarations).cls,
                        Head(declarations).kind, Head(declarations).owner_module,
                        Head(declarations).owner_identity),
             Tail(declarations))

RECURSIVE register_discovered(_, _, _)
\* for module_name in (*delta.added, *delta.changed): the declarations the
\* module is found to hold are registered.
register_discovered(reg, names, current_snapshot) ==
    IF names = <<>> \/ reg.raised THEN reg
    ELSE register_discovered(
             register_declarations(
                 reg, discover_module_declarations(Head(names), current_snapshot[Head(names)])),
             Tail(names), current_snapshot)

\* The unregistrations and registrations of _rediscover_delta_locked for
\* the delta of the two snapshots, in the order of the code.
rediscover_applied(reg, delta, module_snapshot, current_snapshot) ==
    register_discovered(
        unregister_changed(unregister_removed(reg, delta.removed),
                           delta.changed, module_snapshot),
        delta.added \o delta.changed, current_snapshot)

\* What _rediscover_delta_locked leaves once the registry calls are done: a
\* raise leaves the snapshot as it was, else the current snapshot is stored
\* and changed tells whether the registry version moved.
rediscover_outcome(reg, module_snapshot, current_snapshot, done) ==
    IF done.raised
    THEN [registry |-> done, module_snapshot |-> module_snapshot,
          changed |-> FALSE, raised |-> TRUE]
    ELSE [registry |-> done, module_snapshot |-> current_snapshot,
          changed |-> done.version # reg.version, raised |-> FALSE]

\* _rediscover_delta_locked on the registry fields reg: the registry it
\* leaves, the module snapshot it stores, changed as it returns it; raised
\* tells the SettingsRegistrationError that left it half-way.
rediscover_delta(reg, module_snapshot, current_snapshot) ==
    IF module_snapshot = EmptyFn
    THEN [registry |-> [records |-> reg.records, sections |-> reg.sections,
                        version |-> reg.version, raised |-> FALSE],
          module_snapshot |-> current_snapshot, changed |-> FALSE, raised |-> FALSE]
    ELSE rediscover_outcome(
             reg, module_snapshot, current_snapshot,
             rediscover_applied(
                 [records |-> reg.records, sections |-> reg.sections,
                  version |-> reg.version, raised |-> FALSE],
                 diff_module_snapshots(module_snapshot, current_snapshot),
                 module_snapshot, current_snapshot))

\* The state a rediscovery that ended as done leaves.
rediscovered(done) ==
    /\ reg_pre' = RegistryFields
    /\ reg_call' = [op |-> "rediscover_delta",
                    args |-> [previous_snapshot |-> mgr_module_snapshot,
                              current_snapshot |-> sys_modules],
                    raised |-> done.raised]
    /\ records_by_model' = done.registry.records
    /\ sections_by_path' = done.registry.sections
    /\ reg_version' = done.registry.version
    /\ mgr_module_snapshot' = done.module_snapshot
    /\ mgr_missing_cache' = IF done.changed THEN EmptyFn ELSE mgr_missing_cache
    /\ mgr_pre' = ManagerFields
    /\ mgr_call' = CallRecord("rediscover_delta", NoArgs,
                              [Quiet EXCEPT !.value = Bool(done.changed),
                                            !.raised = IF done.raised
                                                       THEN "SettingsRegistrationError"
                                                       ELSE NoStr])
    /\ UNCHANGED <<svars, reg_ncalls, sys_modules, reg_threads, mgr_source, mgr_live_config,
                   mgr_source_states, mgr_schema, mgr_registry_version,
                   mgr_snapshot_live_version, mgr_settings, mgr_source_sync_specs,
                   mgr_validation_fallback_warnings, mgr_ncalls,
                   files, mtimes, environ, nchanges, call_site, mgr_lock>>

\* The rediscovery a resolve of the initialised manager runs before it
\* reads, with snapshot_imported_modules() giving sys.modules: the registry
\* and the snapshot it leaves, the miss cache cleared when it reports a
\* change.  reg_pre and the arguments recorded keep what it started from.
RediscoverDelta ==
    /\ mgr_source # None
    /\ rediscovered(rediscover_delta(RegistryFields, mgr_module_snapshot, sys_modules))

\* sys.modules[name] = module, the module of a generation that is not the
\* one imported under the name.
SetModule ==
    \E name \in {"m1", "m2"}, generation \in Generations :
        /\ name \in DOMAIN sys_modules => sys_modules[name] # generation
        /\ changes("set_module", [name |-> name, generation |-> generation])
        /\ sys_modules' = Put(sys_modules, name, generation)
        /\ UNCHANGED <<records_by_model, sections_by_path, reg_version, reg_call, reg_pre,
                       reg_ncalls, reg_threads, mgr_settings, mgr_source_sync_specs, files,
                       mtimes, environ>>

\* sys.modules.pop(name)
PopModule ==
    \E name \in {"m1", "m2"} :
        /\ name \in DOMAIN sys_modules
        /\ changes("pop_module", [name |-> name])
        /\ sys_modules' = Drop(sys_modules, name)
        /\ UNCHANGED <<records_by_model, sections_by_path, reg_version, reg_call, reg_pre,
                       reg_ncalls, reg_threads, mgr_settings, mgr_source_sync_specs, files,
                       mtimes, environ>>

\* The keys resolve_lookup_path followed to the value of the last call, for
\* a target without a field spelled as the keys are.
ReturnedAt ==
    IF mgr_call.args.target.kind = "str"
    THEN [i \in 1..Len(split_lookup_path(strip(mgr_call.args.target.text))) |->
             part_key(split_lookup_path(strip(mgr_call.args.target.text))[i])]
    ELSE LET section == resolve_type_target(mgr_call.args.target.cls, sections_by_path)
         IN  [i \in 1..Len(section.path) |-> part_key(section.path[i])]

RECURSIVE assigned(_, _, _)
\* root once the object at keys is changed in place into value.
assigned(root, keys, value) ==
    IF keys = <<>> THEN value
    ELSE [root EXCEPT !.kids[Head(keys)] = assigned(@, Tail(keys), value)]

\* returned.clear() on a mapping; returned.name = "mutated" on a record.
mutated(value) ==
    IF value.t = "m" THEN Dict(EmptyFn) ELSE [value EXCEPT !.kids.name = Scalar("mutated")]

\* A caller changes in place the mapping or the record the last resolve
\* returned: when it is the object the typed root holds, the typed root
\* changes with it.
MutateReturned ==
    /\ mgr_call.op \in {"resolve", "resolve_map"}
    /\ mgr_call.raised = NoStr
    /\ mgr_call.value.t \in {"m", "o"}
    /\ mgr_call.value # mutated(mgr_call.value)
    /\ mgr_call.args.field = NoText
    /\ changes("mutate_returned", [request |-> mgr_call.args, returned |-> mgr_call.value,
                                   shared |-> mgr_call.shared])
    /\ mgr_settings' = IF mgr_call.shared
                       THEN assigned(mgr_settings, ReturnedAt, mutated(mgr_call.value))
                       ELSE mgr_settings
    /\ UNCHANGED <<mgr_source_sync_specs, files, mtimes, environ>>

(***************************************************************************)
(* Specifications: one per component, the other component left idle.       *)
(***************************************************************************)
\* No settings file, no environment variable.
NoSurroundings ==
    files = EmptyFn /\ mtimes = EmptyFn /\ environ = EmptyFn /\ nchanges = 0 /\ call_site = None

Init == StoreInit /\ RegistryInit /\ ManagerInit /\ NoSurroundings

StoreNext ==
    \/ Reset /\ UNCHANGED <<rvars, mvars>>
    \/ ReplaceSources /\ UNCHANGED <<rvars, mvars>>
    \/ Materialize /\ UNCHANGED <<rvars, mvars>>

SpecStore == Init /\ [][StoreNext]_vars

RegistryNext ==
    \/ RegisterSection /\ UNCHANGED <<svars, mvars>>
    \/ UnregisterOwner /\ UNCHANGED <<svars, mvars>>

SpecRegistry == Init /\ [][RegistryNext]_vars

\* Declarations followed by reads: module m1 decorates classes A and B with
\* @Settings(path) or @SettingsMap(path), and get() is called in between.
DeclaredPaths == {<<"app">>, <<"app", Sep, "db">>, <<"app", Sep, "name">>}

Declare ==
    \E raw_path \in DeclaredPaths, cls \in Models, kind \in SectionKinds :
        register_section(raw_path, cls, kind, "m1", 1)

DeclareSpecInit ==
    /\ StoreInit
    /\ RegistryInit
    /\ ManagerInit
    /\ files = [p \in WrittenPaths |-> IF p = "settings.yaml" THEN Rich ELSE EmptyFn]
    /\ mtimes = [p \in WrittenPaths |-> 1]
    /\ environ = EmptyFn
    /\ nchanges = 0
    /\ call_site = None

DeclareNext ==
    \/ Declare /\ UNCHANGED <<svars, mvars>>
    \/ get /\ UNCHANGED rvars

SpecDeclare == DeclareSpecInit /\ [][DeclareNext]_vars

\* The registry once @Settings("app") decorated model A of module m1.
AppRecords == [model \in {"A"} |-> SectionRecord(<<"app">>, "A", "object", "m1", 1)]

AppRegistered ==
    /\ records_by_model = AppRecords
    /\ sections_by_path = reindex(AppRecords).sections
    /\ reg_version = 1
    /\ reg_call = [op |-> "register_section",
                   args |-> [raw_path |-> <<"app">>, cls |-> "A", kind |-> "object",
                             owner_module |-> "m1", owner_identity |-> 1],
                   raised |-> FALSE]
    /\ reg_pre = [records |-> EmptyFn, sections |-> EmptyFn, version |-> 0]
    /\ reg_ncalls = 1
    /\ sys_modules = StartModules
    /\ reg_threads = EmptyFn

\* The calls two threads make at once: modules m1 and m2 being imported
\* declare A and B at app or at app.db, and the owner m1 is unregistered.
ThreadCalls ==
    {RegisterCall(<<"app">>, "A", "object", "m1", 1),
     RegisterCall(<<"app", Sep, "db">>, "A", "object", "m1", 2),
     RegisterCall(<<"app">>, "B", "object", "m2", 1),
     RegisterCall(<<"app", Sep, "db">>, "B", "map", "m2", 1),
     RegisterCall(<<"app">>, "B", "list", "m2", 1),
     UnregisterCall("m1", NoIdentity)}

\* Two threads are about to call the registry, which is empty or holds the
\* declaration of A at app; reg_pre keeps the fields they find.
ThreadsSpecInit ==
    /\ StoreInit
    /\ ManagerInit
    /\ NoSurroundings
    /\ records_by_model \in {EmptyFn, AppRecords}
    /\ sections_by_path = reindex(records_by_model).sections
    /\ reg_version = Cardinality(DOMAIN records_by_model)
    /\ reg_call = [op |-> "init", args |-> EmptyFn, raised |-> FALSE]
    /\ reg_pre = RegistryFields
    /\ reg_ncalls = 0
    /\ sys_modules = StartModules
    /\ reg_threads \in [Threads -> {Calling(thread_call) : thread_call \in ThreadCalls}]

ThreadsNext ==
    \E t \in Threads :
        \/ RegisterEnter(t) /\ UNCHANGED <<svars, mvars>>
        \/ SaveSections(t) /\ UNCHANGED <<svars, mvars>>
        \/ SaveVersion(t) /\ UNCHANGED <<svars, mvars>>
        \/ DropStale(t) /\ UNCHANGED <<svars, mvars>>
        \/ StoreCandidate(t) /\ UNCHANGED <<svars, mvars>>
        \/ UnregisterEnter(t) /\ UNCHANGED <<svars, mvars>>
        \/ ReindexRecords(t) /\ UNCHANGED <<svars, mvars>>
        \/ AssignSections(t) /\ UNCHANGED <<svars, mvars>>
        \/ BumpVersion(t) /\ UNCHANGED <<svars, mvars>>
        \/ RestoreRecords(t) /\ UNCHANGED <<svars, mvars>>
        \/ RestoreSections(t) /\ UNCHANGED <<svars, mvars>>
        \/ RestoreVersion(t) /\ UNCHANGED <<svars, mvars>>

SpecThreads == ThreadsSpecInit /\ [][ThreadsNext]_vars

ManagerSpecInit ==
    /\ StoreInit
    /\ AppRegistered
    /\ ManagerInit
    /\ files \in FileSystems
    /\ mtimes = [p \in FilePaths |-> 1]
    /\ environ \in Environments
    /\ nchanges = 0
    /\ call_site = None

ManagerNext ==
    \/ InitCall /\ UNCHANGED rvars
    \/ get /\ UNCHANGED rvars
    \/ reload /\ UNCHANGED rvars

SpecManager == ManagerSpecInit /\ [][ManagerNext]_vars

\* The manager while its files and environment change: it starts with a
\* settings file and a .env file next to it.
SyncSpecInit ==
    /\ StoreInit
    /\ AppRegistered
    /\ ManagerInit
    /\ \E content \in WrittenContents["settings.yaml"] :
           files = [p \in WrittenPaths |->
                       IF p = "settings.yaml" THEN content
                       ELSE load_env_snapshot_raw([k \in {"APP__NAME"} |-> "dot"])]
    /\ mtimes = [p \in WrittenPaths |-> 1]
    /\ environ \in StartEnvironments
    /\ nchanges = 0
    /\ call_site = None

SyncNext ==
    \/ init("settings.yaml", NotGiven) /\ UNCHANGED rvars
    \/ get /\ UNCHANGED rvars
    \/ reload /\ UNCHANGED rvars
    \/ RegisterSourceSync /\ UNCHANGED <<rvars, cached_materialized, call, pre, ncalls>>
    \/ WriteFile /\ UNCHANGED <<rvars, cached_materialized, call, pre, ncalls>>
    \/ SetEnviron /\ UNCHANGED <<rvars, cached_materialized, call, pre, ncalls>>
    \/ Mutate /\ UNCHANGED <<rvars, cached_materialized, call, pre, ncalls>>

SpecSync == SyncSpecInit /\ [][SyncNext]_vars

\* Mutant: the lock is taken whoever holds it.
lock_free_always(lock, t) == TRUE

\* threading.RLock.acquire by thread t: the lock is free, no other thread
\* being in a with block of the manager.
lock_free(lock, t) == \A other \in DOMAIN lock \ {t} : lock[other] = "out"

\* with self._lock: of a public entry, entered by thread t.
Acquire(t) ==
    /\ mgr_lock[t] = "out"
    /\ lock_free(mgr_lock, t)
    /\ mgr_lock' = [mgr_lock EXCEPT ![t] = "in"]
    /\ UNCHANGED <<svars, rvars, mgr_source, mgr_live_config, mgr_source_states, mgr_schema,
                   mgr_registry_version, mgr_snapshot_live_version, mgr_settings,
                   mgr_source_sync_specs, mgr_missing_cache,
                   mgr_validation_fallback_warnings, mgr_call, mgr_pre, mgr_ncalls,
                   mgr_module_snapshot, files, mtimes, environ, nchanges, call_site>>

\* The with block is left by thread t, by return or by raise.
Release(t) ==
    /\ mgr_lock[t] = "ran"
    /\ mgr_lock' = [mgr_lock EXCEPT ![t] = "out"]
    /\ UNCHANGED <<svars, rvars, mgr_source, mgr_live_config, mgr_source_states, mgr_schema,
                   mgr_registry_version, mgr_snapshot_live_version, mgr_settings,
                   mgr_source_sync_specs, mgr_missing_cache,
                   mgr_validation_fallback_warnings, mgr_call, mgr_pre, mgr_ncalls,
                   mgr_module_snapshot, files, mtimes, environ, nchanges, call_site>>

\* The registry once module m1 decorated model A at path_a and model B at
\* path_b, in this order.
BothRecords(path_a, path_b, kind_b) ==
    [model \in {"A", "B"} |->
        IF model = "A" THEN SectionRecord(path_a, "A", "object", "m1", 1)
        ELSE SectionRecord(path_b, "B", kind_b, "m1", 1)]

\* The registries resolve is called with: one section; two sections whose
\* paths differ in case only; two sections of classes sharing a base; an
\* object section and a map section; a section nested in another.
ResolveRecords ==
    {AppRecords,
     BothRecords(<<"APP">>, <<"app">>, "object"),
     BothRecords(<<"app">>, <<"worker">>, "object"),
     BothRecords(<<"app">>, <<"peers">>, "map"),
     BothRecords(<<"app">>, <<"app", Sep, "db">>, "object")}

\* The registry after the registrations that give it the records.
Registered(records) ==
    LET last == IF "B" \in DOMAIN records THEN "B" ELSE "A"
        before == [model \in (DOMAIN records) \ {last} |-> records[model]]
    IN  /\ records_by_model = records
        /\ sections_by_path = reindex(records).sections
        /\ reg_version = Cardinality(DOMAIN records)
        /\ reg_call = [op |-> "register_section",
                       args |-> [raw_path |-> records[last].raw_path, cls |-> last,
                                 kind |-> records[last].kind,
                                 owner_module |-> "m1", owner_identity |-> 1],
                       raised |-> FALSE]
        /\ reg_pre = [records |-> before, sections |-> reindex(before).sections,
                      version |-> Cardinality(DOMAIN before)]
        /\ reg_ncalls = Cardinality(DOMAIN records)
        /\ sys_modules = StartModules
        /\ reg_threads = EmptyFn

\* The string targets and fields of the requests.
PathTexts ==
    {<<"app", Sep, "name">>, <<"APP", Sep, "name">>, <<"App", Sep, "Name">>,
     <<Blank, "app", Blank, Sep, "name">>, <<"app", Sep, "port">>,
     <<"app", Sep, Sep, "name">>, <<Blank>>,
     <<"peers", Sep, "east", Sep, "name">>,
     <<"fastapiex", Sep, "settings", Sep, "reload">>,
     <<"FastAPIEx", Sep, "Settings", Sep, "Reload">>,
     <<"FASTAPIEX", Sep, "SETTINGS", Sep, "RELOAD">>}

TargetClasses == {"A", "B", "Shared", "dict", "int"}

\* A default mapping that has the field the request names.
DefaultMapping == Dict([k \in {"name"} |-> Scalar("dn")])

\* GetSettings(target, field=, default=)
GetSettings(target, field, default) ==
    ResolveRequest("settings", target, field, default, default # NoDefault)

\* GetSettingsMap(target, default=)
GetSettingsMap(target, default) ==
    ResolveRequest("map", target, NoText, default, default # NoDefault)

\* The calls of GetSettings and GetSettingsMap a client may hold.
CallSites ==
    {GetSettings(target, NoText, NoDefault) :
        target \in {StrTarget(text) : text \in PathTexts}
                       \cup {TypeTarget(cls) : cls \in TargetClasses}
                       \cup {NoTarget, OtherTarget}}
    \cup {GetSettings(target, NoText, Scalar("fb")) :
            target \in {NoTarget, StrTarget(<<"app", Sep, "port">>),
                        StrTarget(<<"app", Sep, "name">>),
                        TypeTarget("Shared"), TypeTarget("int"), TypeTarget("B")}}
    \cup {GetSettings(StrTarget(<<"app">>), field, default) :
            field \in {<<"name">>, <<"NAME">>, <<Blank>>},
            default \in {NoDefault, Scalar("fb")}}
    \cup {GetSettings(target, <<"name">>, DefaultMapping) :
            target \in {NoTarget, StrTarget(<<"worker">>), TypeTarget("Shared")}}
    \cup {GetSettingsMap(target, default) :
            target \in {StrTarget(<<"peers">>), StrTarget(<<"app">>),
                        StrTarget(<<"app", Sep, "name">>), StrTarget(<<"FastAPIEx">>),
                        TypeTarget("dict"), NoTarget},
            default \in {NoDefault, Scalar("fb"), DefaultMapping}}

\* The client's call is evaluated.
Resolve ==
    /\ call_site.api = "settings"
    /\ resolve(call_site.target, call_site.field, call_site.default, call_site.has_default)

ResolveMap ==
    /\ call_site.api = "map"
    /\ resolve_map(call_site.target, call_site.default, call_site.has_default)

\* The settings file is rewritten with the content no class validates.
WriteInvalid ==
    write_file("settings.yaml",
               Controlled("fastapiex", "settings", "reload", "always", Bad), TRUE)

\* The manager resolving requests: it starts uninitialised with a settings
\* file and a .env file next to it.
ResolveSpecInit ==
    /\ StoreInit
    /\ \E records \in ResolveRecords : Registered(records)
    /\ ManagerInit
    /\ \E content \in ResolveContents, dotenv \in ResolveDotenvs :
           files = [p \in WrittenPaths |-> IF p = "settings.yaml" THEN content ELSE dotenv]
    /\ mtimes = [p \in WrittenPaths |-> 1]
    /\ environ \in ResolveEnvironments
    /\ nchanges = 0
    /\ call_site \in CallSites

ResolveNext ==
    \/ Resolve /\ UNCHANGED rvars
    \/ ResolveMap /\ UNCHANGED rvars
    \/ WriteInvalid /\ UNCHANGED <<rvars, cached_materialized, call, pre, ncalls>>

SpecResolve == ResolveSpecInit /\ [][ResolveNext]_vars

\* The calls of a client that changes what it was given: a map section by
\* path and by class, a record section, a record of a map section, a
\* default mapping.
SharingCallSites ==
    {GetSettingsMap(StrTarget(<<"peers">>), NoDefault),
     GetSettingsMap(TypeTarget("dict"), NoDefault),
     GetSettingsMap(StrTarget(<<"nowhere">>), DefaultMapping),
     GetSettings(StrTarget(<<"peers">>), NoText, NoDefault),
     GetSettings(StrTarget(<<"app">>), NoText, NoDefault),
     GetSettings(StrTarget(<<"peers", Sep, "east">>), NoText, NoDefault),
     GetSettings(TypeTarget("A"), NoText, NoDefault)}

\* The manager resolving for a client that changes what it was given, with
\* an object section at app and a map section at peers.
SharingSpecInit ==
    /\ StoreInit
    /\ Registered(BothRecords(<<"app">>, <<"peers">>, "map"))
    /\ ManagerInit
    /\ \E content \in ResolveContents, dotenv \in ResolveDotenvs :
           files = [p \in WrittenPaths |-> IF p = "settings.yaml" THEN content ELSE dotenv]
    /\ mtimes = [p \in WrittenPaths |-> 1]
    /\ environ \in ResolveEnvironments
    /\ nchanges = 0
    /\ call_site \in SharingCallSites

SharingNext ==
    \/ Resolve /\ UNCHANGED rvars
    \/ ResolveMap /\ UNCHANGED rvars
    \/ MutateReturned /\ UNCHANGED <<rvars, cached_materialized, call, pre, ncalls>>

SpecSharing == SharingSpecInit /\ [][SharingNext]_vars

\* The requests the threads resolve.
LockedCallSites ==
    {GetSettings(StrTarget(<<"app">>), <<"name">>, NoDefault),
     GetSettingsMap(StrTarget(<<"app">>), Scalar("fb"))}

\* Two threads share the manager while the settings file is rewritten.
LockedSpecInit ==
    /\ StoreInit
    /\ AppRegistered
    /\ ManagerFieldsInit
    /\ mgr_lock = [t \in Threads |-> "out"]
    /\ \E content \in WrittenContents["settings.yaml"] :
           files = [p \in WrittenPaths |->
                       IF p = "settings.yaml" THEN content
                       ELSE load_env_snapshot_raw([k \in {"APP__NAME"} |-> "dot"])]
    /\ mtimes = [p \in WrittenPaths |-> 1]
    /\ environ = EmptyFn
    /\ nchanges = 0
    /\ call_site \in LockedCallSites

\* A thread runs the block of a public entry between acquiring the lock and
\* releasing it; the file is rewritten at any time.
LockedNext ==
    \/ \E t \in Threads : Acquire(t)
    \/ \E t \in Threads : mgr_lock[t] = "in" /\ init("settings.yaml", NotGiven) /\ UNCHANGED rvars
    \/ \E t \in Threads : mgr_lock[t] = "in" /\ get /\ UNCHANGED rvars
    \/ \E t \in Threads : mgr_lock[t] = "in" /\ reload /\ UNCHANGED rvars
    \/ \E t \in Threads : mgr_lock[t] = "in" /\ Resolve /\ UNCHANGED rvars
    \/ \E t \in Threads : mgr_lock[t] = "in" /\ ResolveMap /\ UNCHANGED rvars
    \/ \E t \in Threads :
          /\ mgr_lock[t] = "in"
          /\ RegisterSourceSync
          /\ UNCHANGED <<rvars, cached_materialized, call, pre, ncalls>>
    \/ \E t \in Threads : Release(t)
    \/ WriteFile /\ UNCHANGED <<rvars, cached_materialized, call, pre, ncalls>>

SpecLocked == LockedSpecInit /\ [][LockedNext]_vars

\* The requests of a client whose modules change.
RediscoveryCallSites ==
    {GetSettings(StrTarget(<<"app">>), <<"name">>, NoDefault),
     GetSettings(StrTarget(<<"app">>), <<"name">>, Scalar("fb")),
     GetSettings(TypeTarget("A"), NoText, NoDefault),
     GetSettingsMap(StrTarget(<<"peers">>), NoDefault)}

\* The manager while modules are imported, replaced and removed: module m1
\* has declared class A at app, module m2 is not imported yet.
RediscoverySpecInit ==
    /\ StoreInit
    /\ records_by_model = AppRecords
    /\ sections_by_path = reindex(AppRecords).sections
    /\ reg_version = 1
    /\ reg_call = [op |-> "register_section",
                   args |-> [raw_path |-> <<"app">>, cls |-> "A", kind |-> "object",
                             owner_module |-> "m1", owner_identity |-> 1],
                   raised |-> FALSE]
    /\ reg_pre = [records |-> EmptyFn, sections |-> EmptyFn, version |-> 0]
    /\ reg_ncalls = 1
    /\ sys_modules = Drop(StartModules, "m2")
    /\ reg_threads = EmptyFn
    /\ ManagerInit
    /\ files = [p \in WrittenPaths |-> IF p = "settings.yaml" THEN Rich ELSE EmptyFn]
    /\ mtimes = [p \in WrittenPaths |-> 1]
    /\ environ = EmptyFn
    /\ nchanges = 0
    /\ call_site \in RediscoveryCallSites

\* A resolve is taken once the rediscovery it starts with has run.
RediscoveryNext ==
    \/ SetModule
    \/ PopModule
    \/ RediscoverDelta
    \/ /\ mgr_source # None => mgr_module_snapshot = sys_modules
       /\ Resolve
       /\ UNCHANGED rvars
    \/ /\ mgr_source # None => mgr_module_snapshot = sys_modules
       /\ ResolveMap
       /\ UNCHANGED rvars

SpecRediscovery == RediscoverySpecInit /\ [][RediscoveryNext]_vars

\* The requests of a client while a further module declares its class.
LaterCallSites ==
    {GetSettings(StrTarget(<<"app">>), <<"name">>, NoDefault),
     GetSettings(StrTarget(<<"app">>), <<"name">>, Scalar("fb")),
     GetSettings(TypeTarget("A"), NoText, NoDefault),
     GetSettings(StrTarget(<<"worker">>), <<"name">>, NoDefault)}

\* Module m2 decorates class B, whose name is required, with
\* @Settings("worker") or @Settings("peers"): the file gives worker a name
\* and peers none.
DeclareLater ==
    \E raw_path \in {<<"worker">>, <<"peers">>} :
        register_section(raw_path, "B", "object", "m2", 1)

\* The settings file is rewritten without any name, and with the reload
\* mode always.
WriteBare ==
    write_file("settings.yaml",
               Controlled("fastapiex", "settings", "reload", "always", Bare), TRUE)

\* The manager with class A declared at app and a file every class validates.
LaterSpecInit ==
    /\ StoreInit
    /\ AppRegistered
    /\ ManagerInit
    /\ files = [p \in WrittenPaths |-> IF p = "settings.yaml" THEN Rich ELSE EmptyFn]
    /\ mtimes = [p \in WrittenPaths |-> 1]
    /\ environ = EmptyFn
    /\ nchanges = 0
    /\ call_site \in LaterCallSites

LaterNext ==
    \/ DeclareLater /\ UNCHANGED <<svars, mvars>>
    \/ WriteBare /\ UNCHANGED <<rvars, cached_materialized, call, pre, ncalls>>
    \/ get /\ UNCHANGED rvars
    \/ reload /\ UNCHANGED rvars
    \/ Resolve /\ UNCHANGED rvars

SpecLater == LaterSpecInit /\ [][LaterNext]_vars

\* An application whose first init may raise while it prepares the runtime:
\* the settings file is a plain string, or a second class makes the
\* validation or the assembly of the schema fail.
FailingDocuments ==
    {ScalarDocument, AppOnly("s"), WithControl("fastapiex", "settings", "reload", "always", "s")}

\* Module m2 decorates class B with @Settings("peers"), a section no file
\* gives, or with @Settings("app.name"), a field of class A.
DeclareFailing ==
    \E raw_path \in {<<"peers">>, <<"app", Sep, "name">>} :
        register_section(raw_path, "B", "object", "m2", 1)

\* The settings file is rewritten as a mapping.
WriteMapping == write_file("settings.yaml", AppOnly("s"), TRUE)

InitEither == \E settings_path \in {"settings.yaml", "b.yaml"} : init(settings_path, NotGiven)

FailedInitSpecInit ==
    /\ StoreInit
    /\ AppRegistered
    /\ ManagerInit
    /\ files \in {[p \in FilePaths |-> IF p = "settings.yaml" THEN s ELSE AppOnly("b")] :
                    s \in FailingDocuments}
    /\ mtimes = [p \in FilePaths |-> 1]
    /\ environ = EmptyFn
    /\ nchanges = 0
    /\ call_site = None

FailedInitNext ==
    \/ DeclareFailing /\ UNCHANGED <<svars, mvars>>
    \/ WriteMapping /\ UNCHANGED <<rvars, cached_materialized, call, pre, ncalls>>
    \/ InitEither /\ UNCHANGED rvars
    \/ get /\ UNCHANGED rvars
    \/ reload /\ UNCHANGED rvars

SpecFailedInit == FailedInitSpecInit /\ [][FailedInitNext]_vars

\* A string target with a field, and the dotted path of the two.
TargetsWithField ==
    {<<<<"app">>, <<"name">>>>, <<<<"app">>, <<"NAME">>>>, <<<<"APP">>, <<"name">>>>,
     <<<<"app">>, <<"port">>>>, <<<<"app">>, <<Blank>>>>,
     <<<<"peers">>, <<"fastapiex", Sep, "name">>>>,
     <<<<"peers">>, <<"FastAPIEx", Sep, "name">>>>,
     <<<<"peers">>, <<"FASTAPIEX", Sep, "NAME">>>>,
     <<<<"peers", Sep, "fastapiex">>, <<"name">>>>,
     <<<<"peers", Sep, "FastAPIEx">>, <<"name">>>>,
     <<<<"fastapiex">>, <<"settings", Sep, "reload">>>>,
     <<<<"fastapiex">>, <<"Settings", Sep, "Reload">>>>,
     <<<<"FastAPIEx">>, <<"settings", Sep, "reload">>>>,
     <<<<"FASTAPIEX", Sep, "SETTINGS">>, <<"RELOAD">>>>}

dotted(target_text, field) == target_text \o <<Sep>> \o field

FieldCallSites ==
    {GetSettings(StrTarget(tf[1]), tf[2], NoDefault) : tf \in TargetsWithField}
        \cup {GetSettings(StrTarget(dotted(tf[1], tf[2])), NoText, NoDefault) :
                  tf \in TargetsWithField}

\* The manager resolving a target with a field, or their dotted path, under
\* either case policy: class A at app, the map section of class B at peers.
FieldSpecInit ==
    /\ StoreInit
    /\ Registered(BothRecords(<<"app">>, <<"peers">>, "map"))
    /\ ManagerInit
    /\ \E content \in FieldContents, dotenv \in ResolveDotenvs :
           files = [p \in WrittenPaths |-> IF p = "settings.yaml" THEN content ELSE dotenv]
    /\ mtimes = [p \in WrittenPaths |-> 1]
    /\ environ = EmptyFn
    /\ nchanges = 0
    /\ call_site \in FieldCallSites

FieldNext ==
    \/ Resolve /\ UNCHANGED rvars
    \/ get /\ UNCHANGED rvars

SpecField == FieldSpecInit /\ [][FieldNext]_vars


(***************************************************************************)
(* Claims about the LWW store (checked under SpecStore).                   *)
(***************************************************************************)
\* What materialize() returns in the current state, and what it returned
\* when the last call started.
MatNow == materialize(slots, cached_materialized)

MatBefore == materialize(pre.slots, pre.cached_materialized)

Entry(slots_, path, source) ==
    IF path \in DOMAIN slots_ /\ source \in DOMAIN slots_[path]
    THEN slots_[path][source] ELSE None

\* The value a source holds per path, without revisions.
SourceContent(slots_, source) ==
    LET current == current_source_values(slots_, source)
    IN  [path \in DOMAIN current |-> current[path].value]

StrictPrefix(p, q) == Len(p) < Len(q) /\ SubSeq(q, 1, Len(p)) = p

Overlaps(p, q) == StrictPrefix(p, q) \/ StrictPrefix(q, p)

HighestPriority(sources) ==
    CHOOSE source \in sources :
        \A other \in sources : SOURCE_PRIORITY[other] <= SOURCE_PRIORITY[source]

ResetHolders(path) == {source \in SourceNames : path \in DOMAIN Flat(call.args[source])}

ResetPaths == UNION {DOMAIN Flat(call.args[source]) : source \in SourceNames}

\* C1 as stated: after reset, every path present in more than one source
\* materializes to the value of the highest-priority source holding it.
C1_StartupPrecedenceAsStated ==
    call.op = "reset" =>
        \A path \in ResetPaths :
            Cardinality(ResetHolders(path)) > 1 =>
                Lookup(MatNow, path) = Flat(call.args[HighestPriority(ResetHolders(path))])[path]

\* C1 (amended): after reset, every path present in more than one source, and
\* of which no other path given to the reset is a strict prefix or a strict
\* extension, materializes to the value of the highest-priority source holding it.
C1_StartupPrecedence ==
    call.op = "reset" =>
        \A path \in ResetPaths :
            (/\ Cardinality(ResetHolders(path)) > 1
             /\ \A other \in ResetPaths : ~Overlaps(path, other)) =>
                Lookup(MatNow, path) = Flat(call.args[HighestPriority(ResetHolders(path))])[path]

C1_Witness ==
    /\ call.op = "reset"
    /\ call.ret
    /\ \E path \in ResetPaths :
          /\ ResetHolders(path) = SourceNames
          /\ \A other \in ResetPaths : ~Overlaps(path, other)
          /\ Flat(call.args["env"])[path] # Flat(call.args["dotenv"])[path]
          /\ Lookup(MatNow, path) = Flat(call.args["env"])[path]


\* The call just made is replace_source(source, M) for some M.
IsReplaceSource(source) == call.op = "replace_sources" /\ DOMAIN call.args = {source}

\* C2 as stated: after reset followed by replace_source(yaml, F'), every path
\* that F' sets and whose winner was env materializes to the value of F'.
C2_FileRewriteWinsAsStated ==
    (pre.op = "reset" /\ IsReplaceSource("yaml")) =>
        \A path \in DOMAIN Flat(call.args["yaml"]) :
            (path \in DOMAIN pre.slots /\ pick_winner(pre.slots[path]) = "env") =>
                Lookup(MatNow, path) = Flat(call.args["yaml"])[path]

\* C2 (amended): after reset followed by replace_source(yaml, F'), every path
\* whose winner was env and that F' sets to a value different from the one the
\* file source held there (or that the file source did not hold) materializes
\* to the value of F'.
C2_FileRewriteWins ==
    (pre.op = "reset" /\ IsReplaceSource("yaml")) =>
        \A path \in DOMAIN Flat(call.args["yaml"]) :
            (/\ path \in DOMAIN pre.slots
             /\ pick_winner(pre.slots[path]) = "env"
             /\ \/ Entry(pre.slots, path, "yaml") = None
                \/ Entry(pre.slots, path, "yaml").value # Flat(call.args["yaml"])[path]) =>
                Lookup(MatNow, path) = Flat(call.args["yaml"])[path]

C2_Witness ==
    /\ pre.op = "reset"
    /\ IsReplaceSource("yaml")
    /\ \E path \in DOMAIN Flat(call.args["yaml"]) :
          /\ path \in DOMAIN pre.slots
          /\ pick_winner(pre.slots[path]) = "env"
          /\ Entry(pre.slots, path, "yaml") # None
          /\ pre.slots[path]["env"].value # Flat(call.args["yaml"])[path]
          /\ Lookup(MatNow, path) = Flat(call.args["yaml"])[path]

\* C3: a replace_source / replace_sources call returns True exactly when it
\* changed the slot set, and then version is strictly greater than before; a
\* call that changes nothing returns False, leaves version unchanged, and
\* materialize() right after it equals the materialization before it.
C3_ReplaceReportsChange ==
    call.op = "replace_sources" =>
        /\ call.ret <=> (slots # pre.slots)
        /\ call.ret => version > pre.version
        /\ ~call.ret => (version = pre.version /\ MatNow = MatBefore)

C3_Witness ==
    /\ call.op = "replace_sources"
    /\ pre.op = "replace_sources"
    /\ ~call.ret
    /\ version = 1
    /\ slots # EmptyFn
    /\ \E source \in DOMAIN call.args : Flat(call.args[source]) # EmptyFn

\* The sources whose content differs from the mapping given to the call.
TouchedByCall ==
    {source \in DOMAIN call.args :
        SourceContent(pre.slots, source) # Flat(call.args[source])}

\* The paths at which the call wrote an entry of the source.
WrittenByCall(source) ==
    {path \in DOMAIN slots :
        /\ Entry(slots, path, source) # None
        /\ Entry(slots, path, source) # Entry(pre.slots, path, source)}

Writers(path) == {source \in TouchedByCall : path \in WrittenByCall(source)}

\* C4: in one replace_sources call touching several sources, each touched
\* source gets one new revision greater than every revision already in the
\* store, in ascending priority order, so a path written by several sources
\* in that call is won by the highest-priority of them.
C4_BatchRevsByPriority ==
    (call.op = "replace_sources" /\ Cardinality(TouchedByCall) > 1) =>
        /\ rev = pre.rev + Cardinality(TouchedByCall)
        /\ \A source \in TouchedByCall :
              \E new_rev \in (pre.rev + 1)..rev :
                 /\ new_rev > MaxOf(SlotRevs(pre.slots))
                 /\ \A path \in WrittenByCall(source) : slots[path][source].rev = new_rev
        /\ \A low, high \in TouchedByCall :
              SOURCE_PRIORITY[low] < SOURCE_PRIORITY[high] =>
                 \A p \in WrittenByCall(low), q \in WrittenByCall(high) :
                    slots[p][low].rev < slots[q][high].rev
        /\ \A path \in DOMAIN slots :
              Cardinality(Writers(path)) > 1 =>
                 pick_winner(slots[path]) = HighestPriority(Writers(path))

C4_Witness ==
    /\ call.op = "replace_sources"
    /\ pre.slots # EmptyFn
    /\ \E path \in DOMAIN slots :
          /\ Writers(path) = {"yaml", "dotenv"}
          /\ path \in DOMAIN pre.slots
          /\ pick_winner(pre.slots[path]) = "env"
          /\ pick_winner(slots[path]) = "dotenv"

\* C5: replace_source(s, M) stamps a new revision only on the paths whose value
\* for s differs from the stored one; entries of the other sources and
\* unchanged entries of s keep value and revision, so a path rewritten by the
\* file is won by the file while a path it left alone keeps its winner.
C5_ReplaceStampsOnlyChanges ==
    \A source \in SourceNames :
        IsReplaceSource(source) =>
            LET next_flat == Flat(call.args[source])
                same(path) == /\ Entry(pre.slots, path, source) # None
                              /\ path \in DOMAIN next_flat
                              /\ Entry(pre.slots, path, source).value = next_flat[path]
            IN  /\ \A path \in DOMAIN slots \cup DOMAIN pre.slots :
                      \A other \in SourceNames \ {source} :
                          Entry(slots, path, other) = Entry(pre.slots, path, other)
                /\ \A path \in DOMAIN slots \cup DOMAIN pre.slots \cup DOMAIN next_flat :
                      Entry(slots, path, source) =
                          IF same(path) THEN Entry(pre.slots, path, source)
                          ELSE IF path \in DOMAIN next_flat
                               THEN SourceValue(pre.rev + 1, next_flat[path])
                               ELSE None
                /\ \A path \in DOMAIN slots :
                      IF same(path)
                      THEN pick_winner(slots[path]) = pick_winner(pre.slots[path])
                      ELSE path \in DOMAIN next_flat => pick_winner(slots[path]) = source

C5_Witness ==
    /\ pre.op = "reset"
    /\ IsReplaceSource("yaml")
    /\ <<"app", "name">> \in DOMAIN pre.slots
    /\ <<"app", "port">> \in DOMAIN pre.slots
    /\ pick_winner(pre.slots[<<"app", "name">>]) = "env"
    /\ pick_winner(pre.slots[<<"app", "port">>]) = "env"
    /\ Entry(pre.slots, <<"app", "port">>, "yaml") # None
    /\ <<"app", "name">> \in DOMAIN slots
    /\ <<"app", "port">> \in DOMAIN slots
    /\ pick_winner(slots[<<"app", "name">>]) = "yaml"
    /\ pick_winner(slots[<<"app", "port">>]) = "env"
    /\ Entry(slots, <<"app", "port">>, "yaml") = Entry(pre.slots, <<"app", "port">>, "yaml")


(***************************************************************************)
(* Claims about the registry (checked under SpecRegistry).                 *)
(***************************************************************************)
RegArgsRecord ==
    SectionRecord(reg_call.args.raw_path, reg_call.args.cls, reg_call.args.kind,
                  reg_call.args.owner_module, reg_call.args.owner_identity)

\* The records the last register_section call deleted as stale before it went on.
StaleDropped ==
    {model \in DOMAIN reg_pre.records :
        model \notin DOMAIN drop_stale(reg_pre.records, reg_call.args.owner_module,
                                       reg_call.args.owner_identity)}

\* C6: a register_section call that raises a registration error leaves the
\* records, the path index and the version exactly as before the call, the
\* records of a stale owner generation it had dropped included.
C6_FailedRegistrationRollsBack ==
    (reg_call.op = "register_section" /\ reg_call.raised) =>
        /\ records_by_model = reg_pre.records
        /\ sections_by_path = reg_pre.sections
        /\ reg_version = reg_pre.version
        /\ \A model \in StaleDropped : records_by_model[model] = reg_pre.records[model]

C6_Witness ==
    /\ reg_call.op = "register_section"
    /\ reg_call.raised
    /\ reg_call.args.cls \in Models
    /\ reg_call.args.kind \in SectionKinds
    /\ StaleDropped # {}
    /\ canonicalize_path(reg_call.args.raw_path).ok
    /\ \E path \in DOMAIN sections_by_path :
          /\ path = canonicalize_path(reg_call.args.raw_path).path
          /\ sections_by_path[path].model # reg_call.args.cls
    /\ \A model \in StaleDropped : model \in DOMAIN records_by_model

\* The records an unregister_owner call with the last call's arguments matches.
UnregisterMatches ==
    {model \in DOMAIN reg_pre.records :
        /\ reg_pre.records[model].owner_module = reg_call.args.owner_module
        /\ \/ reg_call.args.owner_identity = NoIdentity
           \/ reg_pre.records[model].owner_identity = reg_call.args.owner_identity}

IdenticalReRegistration ==
    /\ reg_call.op = "register_section"
    /\ ~reg_call.raised
    /\ reg_call.args.cls \in DOMAIN reg_pre.records
    /\ reg_pre.records[reg_call.args.cls] = RegArgsRecord

\* C7: the registry version is unchanged by re-registering a section identical
\* to the stored record and by an unregister_owner that matches no record; it
\* strictly increases on every call that changes the section set, and never
\* decreases.
C7_VersionTracksChanges ==
    /\ IdenticalReRegistration => reg_version = reg_pre.version
    /\ (reg_call.op = "unregister_owner" /\ UnregisterMatches = {}) =>
          reg_version = reg_pre.version
    /\ (records_by_model # reg_pre.records \/ sections_by_path # reg_pre.sections) =>
          reg_version > reg_pre.version
    /\ reg_version >= reg_pre.version

C7_Witness ==
    /\ IdenticalReRegistration
    /\ reg_ncalls = 3
    /\ reg_version = 2
    /\ reg_pre.version = 2
    /\ Cardinality(DOMAIN records_by_model) = 2

(***************************************************************************)
(* Claims about the manager (checked under SpecManager).                   *)
(***************************************************************************)
\* The source the last call's arguments resolve to.
RequestedSource == resolve_source(mgr_call.args.settings_path, mgr_call.args.env_prefix)

\* The last call was an init on an initialised manager whose resolved source
\* differs from the source the manager held.
ConflictingInit ==
    /\ mgr_call.op = "init"
    /\ mgr_pre.source # None
    /\ RequestedSource # mgr_pre.source

\* Every field of the manager and of its store is as when the call started.
ManagerUntouched ==
    /\ mgr_source = mgr_pre.source
    /\ mgr_live_config = mgr_pre.live_config
    /\ slots = mgr_pre.slots
    /\ rev = mgr_pre.rev
    /\ version = mgr_pre.version
    /\ mgr_source_states = mgr_pre.source_states
    /\ mgr_schema = mgr_pre.schema
    /\ mgr_registry_version = mgr_pre.registry_version
    /\ mgr_snapshot_live_version = mgr_pre.snapshot_live_version
    /\ mgr_settings = mgr_pre.settings

\* C8: on an initialised manager, an init whose resolved source differs from
\* the current source raises the "different source" error and changes
\* nothing: source, store, schema and typed root are as before the call.
C8_DifferentSourceRaisesUnchanged ==
    ConflictingInit => (mgr_call.raised = "different source" /\ ManagerUntouched)

C8_Witness ==
    /\ ConflictingInit
    /\ mgr_call.raised = "different source"
    /\ mgr_pre.settings # None
    /\ mgr_pre.source.settings_path = "c.yaml"
    /\ mgr_call.args.settings_path = "b.yaml"

\* C9 as stated: an init repeating the explicit settings path and the env
\* prefix of the first init (environment and files unchanged) succeeds and
\* returns the typed root, whatever the settings file contains.
C9_RepeatedInitSucceeds ==
    (/\ mgr_ncalls = 2
     /\ mgr_call.op = "init"
     /\ mgr_pre.call.op = "init"
     /\ mgr_pre.call.raised = NoStr
     /\ mgr_call.args = mgr_pre.call.args
     /\ mgr_call.args.settings_path # NoStr)
        => (mgr_call.raised = NoStr /\ mgr_settings # None)

\* The control record a settings file yields on its own.
file_control(path) ==
    read_control_model(materialize_control_snapshot(entries(build_seed_slots(
        [source \in SourceNames |->
            IF source = "yaml" THEN Flat(load_yaml_settings(files, path))
            ELSE Flat(EmptyFn)]))))

\* The path the file at path sends the manager to (path itself when it does
\* not redirect).
redirect_of(control, path) ==
    resolve_settings_path_from_control(NoStr, control.path, control.base_dir, path)

FileRedirect(path) == redirect_of(file_control(path), path)

RECURSIVE ChainEnd(_, _)
\* The end of the chain of distinct redirects, next being where path redirects
\* to; NoStr when the redirects come back to a path already seen.
chain_step(path, next, seen) ==
    IF next = path THEN path
    ELSE IF next \in seen THEN NoStr
    ELSE ChainEnd(next, seen \cup {next})

ChainEnd(path, seen) == chain_step(path, FileRedirect(path), seen)

\* The settings path the last call started from.
ChainStart ==
    IF mgr_pre.source = None THEN RequestedSource.settings_path
    ELSE mgr_pre.source.settings_path

ChainTarget == ChainEnd(ChainStart, {ChainStart})

\* The last call was a successful init or get and the files give a finite
\* chain of distinct redirects from where it started.
ConvergedOverChain ==
    /\ mgr_call.op \in {"init", "get"}
    /\ mgr_call.raised = NoStr
    /\ ChainTarget # NoStr

\* No environment variable sets the settings path or the base_dir control.
NoPathInEnvironment ==
    LET control == read_control_model(build_env_controls_snapshot(environ))
    IN  control.path = NoStr /\ control.base_dir = NoStr

SettledOn(P) ==
    /\ mgr_source.settings_path = P
    /\ SourceContent(slots, "yaml") = Flat(load_yaml_settings(files, P))
    /\ mgr_settings = validate_effective_snapshot_locked(Manager)
    /\ build_source_from_controls_locked(Manager) = mgr_source

\* C10 as stated: given a finite chain of distinct settings_path redirects
\* ending at P, after init/get the manager is settled on P.
C10_ChainConvergesAsStated == ConvergedOverChain => SettledOn(ChainTarget)

\* C10: given a finite chain of distinct settings_path redirects ending at a
\* path P that does not redirect further, and no settings path or base_dir
\* control in the environment, after init/get the manager's settings_path is P, the
\* store's file-source content is exactly P's content, the typed root is
\* validated from P's effective projection, and the source built from the
\* control view equals the current source.
C10_ChainConverges ==
    (ConvergedOverChain /\ NoPathInEnvironment) => SettledOn(ChainTarget)

C10_Witness ==
    /\ ConvergedOverChain
    /\ NoPathInEnvironment
    /\ mgr_pre.source = None
    /\ ChainStart = "settings.yaml"
    /\ FileRedirect("settings.yaml") = "b.yaml"
    /\ FileRedirect("b.yaml") = "c.yaml"
    /\ SettledOn("c.yaml")
    /\ AppName(mgr_settings) = "c"

\* The last call was init(A), not refused for a different source, with the
\* file at A redirecting to another file that redirects back to A.
InitOnTwoCycle ==
    /\ mgr_call.op = "init"
    /\ mgr_call.raised # "different source"
    /\ mgr_call.args.settings_path \in FilePaths
    /\ FileRedirect(mgr_call.args.settings_path) # mgr_call.args.settings_path
    /\ FileRedirect(FileRedirect(mgr_call.args.settings_path)) = mgr_call.args.settings_path

FrozenOnRedirect ==
    /\ mgr_call.raised = NoStr
    /\ mgr_call.cycle_warnings = 1
    /\ mgr_source.settings_path = FileRedirect(mgr_call.args.settings_path)
    /\ SourceContent(slots, "yaml")
           = Flat(load_yaml_settings(files, FileRedirect(mgr_call.args.settings_path)))

\* C11 as stated: with two files A and B that redirect to each other, init(A)
\* completes without error, logs the cycle warning exactly once, and leaves
\* settings_path frozen on B with the store's file source holding B's content.
C11_TwoCycleFreezesOnBAsStated == InitOnTwoCycle => FrozenOnRedirect

\* C11: with two files A and B that redirect to each other and no settings
\* path or base_dir control in the environment, init(A) completes without
\* error, logs the cycle warning exactly once, and leaves settings_path frozen
\* on B with the store's file source holding B's content.
C11_TwoCycleFreezesOnB == (InitOnTwoCycle /\ NoPathInEnvironment) => FrozenOnRedirect

C11_Witness ==
    /\ InitOnTwoCycle
    /\ NoPathInEnvironment
    /\ mgr_call.args.settings_path = "settings.yaml"
    /\ mgr_call.cycle_warnings = 1
    /\ mgr_source.settings_path = "b.yaml"
    /\ AppName(mgr_settings) = "b"

(***************************************************************************)
(* Claims about the manager while its surroundings change (SpecSync).      *)
(***************************************************************************)
\* The last step was a successful get on a manager that had its source.
AutoRead ==
    /\ mgr_call.op = "get"
    /\ mgr_call.raised = NoStr
    /\ mgr_pre.source # None

\* The sources flagged for reload when the call started.
ReloadFlagged == {source \in SourceNames : mgr_pre.source_sync_specs[source].sync_on_reload}

\* What the reader of a source gives now.
Snapshot(source) == read_source_snapshot_locked(Manager, source)

\* The source has no freshness token, or its token differs from the one
\* remembered when the call started.
Stale(source) ==
    Snapshot(source).state = None \/ Snapshot(source).state # mgr_pre.source_states[source]

\* The call read the source again: the store holds what the reader gives and
\* the manager remembers the token it gave.
ReRead(source) ==
    /\ SourceContent(slots, source) = Flat(Snapshot(source).payload)
    /\ mgr_source_states[source] = Snapshot(source).state

\* The call left the source alone: entries, revisions and remembered token.
NotReRead(source) ==
    /\ current_source_values(slots, source) = current_source_values(mgr_pre.slots, source)
    /\ mgr_source_states[source] = mgr_pre.source_states[source]

\* The typed root is the one validated from the store.
RootFromStore ==
    mgr_settings = validate_effective_snapshot_locked(Manager)

\* The settings file differs from what the store held when the call started.
FileChanged ==
    SourceContent(mgr_pre.slots, "yaml") # Flat(Snapshot("yaml").payload)

\* C12: on get with reload mode off no source is re-read; with on_change a
\* reload-flagged source is re-read exactly when it has no token or its token
\* differs from the remembered one; with always every reload-flagged source
\* is re-read.  So a changed file is in the typed root after the next get
\* under always, and under on_change when its token changed; under off only
\* after reload(); and the reload mode of the source follows the control
\* view of what was read, so a mode set by the file governs the next call.
C12_AutoSyncByReloadMode ==
    /\ AutoRead =>
          \A source \in SourceNames :
              CASE mgr_pre.source.reload_mode = "off" -> NotReRead(source)
                [] mgr_pre.source.reload_mode = "on_change" ->
                      IF source \in ReloadFlagged /\ Stale(source)
                      THEN ReRead(source) ELSE NotReRead(source)
                [] OTHER ->
                      IF source \in ReloadFlagged THEN ReRead(source) ELSE NotReRead(source)
    /\ (AutoRead /\ FileChanged) =>
          CASE mgr_pre.source.reload_mode = "off" -> ~ReRead("yaml")
            [] mgr_pre.source.reload_mode = "on_change" ->
                  Stale("yaml") => (ReRead("yaml") /\ RootFromStore)
            [] OTHER -> ReRead("yaml") /\ RootFromStore
    /\ (mgr_call.op = "reload" /\ mgr_call.raised = NoStr) =>
          (ReRead("yaml") /\ RootFromStore)
    /\ (mgr_call.op \in {"init", "get", "reload"} /\ mgr_call.raised = NoStr) =>
          mgr_source.reload_mode
              = read_control_model(materialize_control_snapshot(entries(slots))).reload

C12_Witness ==
    /\ AutoRead
    /\ FileChanged
    /\ mgr_pre.source.reload_mode = "on_change"
    /\ AppName(mgr_pre.settings) = "dot"
    /\ ReRead("yaml")
    /\ mgr_source.reload_mode = "always"
    /\ AppName(mgr_settings) = "t"

\* The last step was a successful get or reload on a manager that had its
\* source and the default sync flags for the source.
ReadWithDefaultSync(source) ==
    /\ mgr_call.op \in {"get", "reload"}
    /\ mgr_call.raised = NoStr
    /\ mgr_pre.source # None
    /\ mgr_pre.source_sync_specs[source] = DefaultSourceSyncs[source]

\* The last step was register_source_sync(source, sync_on_reload=True).
RegisteredForReload(source) ==
    /\ mgr_call.op = "register_source_sync"
    /\ mgr_call.args.source = source
    /\ mgr_call.args.sync_on_reload = "True"
    /\ mgr_call.args.sync_on_path_switch = "None"

\* The .env file differs from what the store held when the call started.
DotenvChanged ==
    SourceContent(mgr_pre.slots, "dotenv") # Flat(Snapshot("dotenv").payload)

\* The last step was a successful get under on_change with dotenv flagged
\* for reload, env not, and a .env file that changed with its token.
GetAfterDotenvChange ==
    /\ AutoRead
    /\ mgr_pre.source.reload_mode = "on_change"
    /\ "dotenv" \in ReloadFlagged
    /\ "env" \notin ReloadFlagged
    /\ Stale("dotenv")
    /\ DotenvChanged

\* C13: with the default sync flags, a get or reload after init re-reads
\* neither dotenv nor env: their store entries stay as seeded whatever
\* changed in .env or the environment.  register_source_sync("dotenv",
\* sync_on_reload=True) sets the reload flag and keeps the reader and the
\* path-switch flag of the source, and the next get under on_change then
\* holds the changed .env in the store and in the typed root.
C13_DotenvEnvSeededOnly ==
    /\ \A source \in {"dotenv", "env"} :
          /\ ReadWithDefaultSync(source) => NotReRead(source)
          /\ RegisteredForReload(source) =>
                mgr_source_sync_specs =
                    [mgr_pre.source_sync_specs EXCEPT ![source].sync_on_reload = TRUE]
    /\ GetAfterDotenvChange =>
          /\ ReRead("dotenv")
          /\ RootFromStore
          /\ mgr_settings.kids.app.kids.name = files[".env"]["APP__NAME"]

C13_Witness ==
    /\ GetAfterDotenvChange
    /\ mgr_pre.call.op = "register_source_sync"
    /\ AppName(mgr_pre.settings) = "dot"
    /\ AppName(mgr_settings) = "dot2"


(***************************************************************************)
(* Claims about resolving (checked under SpecResolve).                     *)
(***************************************************************************)
\* The store validates against the registered sections: the call worked on
\* a typed root.
Validates == validate_effective_snapshot_locked(Manager).t # "err"

\* The last call missed: the default is returned as it is when one is
\* given, SettingsResolveError is raised otherwise.
Missed ==
    IF mgr_call.args.has_default
    THEN mgr_call.raised = NoStr /\ mgr_call.value = mgr_call.args.default
    ELSE mgr_call.raised = "SettingsResolveError"

\* The paths of the sections whose class, or for a map section whose class
\* or dict, derives from cls.
MatchedPaths(cls) ==
    {p \in DOMAIN sections_by_path :
        \/ cls \in Bases[sections_by_path[p].model]
        \/ sections_by_path[p].kind = "map" /\ cls \in Bases["dict"]}

RECURSIVE ExactWalk(_, _)
\* The value at a canonical path of one-word parts, every part taken as it is
\* spelled.
ExactWalk(node, path) ==
    IF path = <<>> THEN node ELSE ExactWalk(node.kids[Head(path)[1]], Tail(path))

\* The last call resolved a class target, without a field, on a typed root.
TypeTargetCall ==
    /\ mgr_call.op = "resolve"
    /\ mgr_call.args.target.kind = "type"
    /\ mgr_call.args.field = NoText
    /\ Validates

\* names lists the texts of the paths, each once, in ascending order.
SortedTextsOf(names, paths) ==
    /\ Len(names) = Cardinality(paths)
    /\ {names[i] : i \in 1..Len(names)} = {path_text(p) : p \in paths}
    /\ \A i, j \in 1..Len(names) : i < j => PathLess(names[i], names[j])

\* C14: resolve with a class target selects the sections whose class (for a
\* map section the class of its items or dict) derives from the target.  One
\* match gives the value at that section's canonical path, every part taken
\* as spelled whatever the case policy; no match is a miss; several matches
\* are a miss whose message lists the matched paths in ascending order, raised
\* as SettingsResolveError when no default is given.
C14_TypeTargetSelectsSection ==
    TypeTargetCall =>
        LET matched == MatchedPaths(mgr_call.args.target.cls)
        IN  /\ Cardinality(matched) = 1 =>
                  /\ mgr_call.raised = NoStr
                  /\ mgr_call.value = ExactWalk(mgr_settings, CHOOSE p \in matched : TRUE)
            /\ matched = {} =>
                  /\ Missed
                  /\ ~mgr_call.args.has_default =>
                        mgr_call.message[1] = "did not match any declared section"
            /\ Cardinality(matched) > 1 =>
                  /\ Missed
                  /\ ~mgr_call.args.has_default =>
                        /\ mgr_call.message[1] = "matched multiple sections"
                        /\ SortedTextsOf(mgr_call.message[3], matched)

\* Under the folded policy, with sections APP (class A) and app (class B),
\* the target A resolves to the section spelled APP.
C14_Witness ==
    /\ mgr_call.op = "resolve"
    /\ mgr_call.args.target = TypeTarget("A")
    /\ mgr_call.args.field = NoText
    /\ ~mgr_source.case_sensitive
    /\ DOMAIN sections_by_path = {<<<<"APP">>>>, <<<<"app">>>>}
    /\ mgr_call.raised = NoStr
    /\ mgr_call.value = Obj("A", [k \in {"name"} |-> Scalar("upper")])

\* The last call asked for something the typed root does not hold: no target,
\* a string path that names nothing (app.port, or worker when no section is
\* declared there), or a class that not exactly one section derives from.
MissingRequest ==
    /\ mgr_call.op = "resolve"
    /\ Validates
    /\ LET target == mgr_call.args.target
       IN  IF target.kind = "none" THEN TRUE
           ELSE IF target.kind = "str"
           THEN \/ target.text = <<"app", Sep, "port">>
                \/ /\ target.text = <<"worker">>
                   /\ <<<<"worker">>>> \notin DOMAIN sections_by_path
           ELSE IF target.kind = "type"
           THEN Cardinality(MatchedPaths(target.cls)) # 1
           ELSE FALSE

\* C15: a resolve request that misses (no target, an unknown string path, a
\* class target matched by no section or by several) returns the default as
\* it was given when there is one, the field not being applied to it, and
\* raises SettingsResolveError when there is none.
C15_MissGivesDefaultItself ==
    MissingRequest =>
        IF mgr_call.args.has_default
        THEN /\ mgr_call.raised = NoStr
             /\ mgr_call.value = mgr_call.args.default
        ELSE /\ mgr_call.raised = "SettingsResolveError"
             /\ mgr_call.value = None

\* resolve(None, field="name", default={"name": "dn"}) returned the mapping,
\* not its name.
C15_Witness ==
    /\ MissingRequest
    /\ mgr_call.args.target = NoTarget
    /\ mgr_call.args.field = <<"name">>
    /\ mgr_call.args.default = DefaultMapping
    /\ mgr_call.value = DefaultMapping
    /\ mgr_call.value # Scalar("dn")

\* A class target matched by two sections, with a field and a default.
C15_WitnessAmbiguousClass ==
    /\ MissingRequest
    /\ mgr_call.args.target = TypeTarget("Shared")
    /\ Cardinality(MatchedPaths("Shared")) = 2
    /\ mgr_call.args.field = <<"name">>
    /\ mgr_call.value = DefaultMapping

\* The last call was resolve_map with a string target that leads, on a typed
\* root that validates, to a value that is not a mapping: the record of the
\* object section app, or its name.
NonMappingTarget ==
    /\ mgr_call.op = "resolve_map"
    /\ Validates
    /\ mgr_call.args.target \in {StrTarget(<<"app">>), StrTarget(<<"app", Sep, "name">>)}

\* C16: resolve_map never returns a non-mapping.  A resolved value that is
\* not a mapping is a miss: the default is returned when it is a mapping,
\* SettingsResolveError is raised when there is none; a default that is not
\* a mapping is never returned, the call raises SettingsResolveError.
C16_ResolveMapReturnsMapping ==
    mgr_call.op = "resolve_map" =>
        /\ mgr_call.raised = NoStr => mgr_call.value.t = "m"
        /\ NonMappingTarget =>
               IF mgr_call.args.has_default /\ mgr_call.args.default.t = "m"
               THEN mgr_call.raised = NoStr /\ mgr_call.value = mgr_call.args.default
               ELSE mgr_call.raised = "SettingsResolveError"
        /\ mgr_call.args.has_default /\ mgr_call.args.default.t # "m" =>
               \/ mgr_call.raised = "SettingsResolveError"
               \/ mgr_call.raised = NoStr /\ mgr_call.value # mgr_call.args.default

\* resolve_map("app", default={"name": "dn"}) on the record of an object
\* section returned the default mapping.
C16_Witness ==
    /\ NonMappingTarget
    /\ mgr_call.args.target = StrTarget(<<"app">>)
    /\ mgr_settings.kids.app.t = "o"
    /\ mgr_call.args.default = DefaultMapping
    /\ mgr_call.raised = NoStr
    /\ mgr_call.value = DefaultMapping

\* resolve_map("app.name", default="fb") raised instead of returning "fb".
C16_WitnessDefaultRejected ==
    /\ NonMappingTarget
    /\ mgr_call.args.target = StrTarget(<<"app", Sep, "name">>)
    /\ mgr_call.args.default = Scalar("fb")
    /\ mgr_call.raised = "SettingsResolveError"

\* resolve_map("peers", default="fb") returned the mapping of the map
\* section; the default was not looked at.
C16_WitnessMapSection ==
    /\ mgr_call.op = "resolve_map"
    /\ mgr_call.args.target = StrTarget(<<"peers">>)
    /\ mgr_call.args.default = Scalar("fb")
    /\ mgr_call.raised = NoStr
    /\ mgr_call.value.t = "m"
    /\ mgr_call.value = mgr_settings.kids.peers

\* The two words of the path the last call walked from the typed root, when
\* it was resolve("<section>.<name>") or resolve("<section>", field="<name>")
\* in some spelling of app and name; <<>> for any other call.
CasePathWords ==
    LET args == mgr_call.args
    IN  IF mgr_call.op # "resolve" \/ args.target.kind # "str" THEN <<>>
        ELSE IF args.field = NoText
        THEN IF args.target.text = <<"app", Sep, "name">> THEN <<"app", "name">>
             ELSE IF args.target.text = <<"APP", Sep, "name">> THEN <<"APP", "name">>
             ELSE IF args.target.text = <<"App", Sep, "Name">> THEN <<"App", "Name">>
             ELSE <<>>
        ELSE IF args.target.text = <<"app">> /\ args.field \in {<<"name">>, <<"NAME">>}
        THEN <<"app", args.field[1]>>
        ELSE <<>>

\* The keys or fields of a node that are the word up to case.
FoldedKeys(node, word) == {k \in DOMAIN node.kids : lower(k) = lower(word)}

\* The last call returned the value.
Returned(value) == mgr_call.raised = NoStr /\ mgr_call.value = value

\* C17: under the exact policy a string path resolves through the keys and
\* fields spelled as its segments are, so APP.name and app.name each give
\* their own value and a spelling that names nothing is a miss; under the
\* folded policy a segment that matches one key or field up to case resolves
\* to it, and a segment that matches several, or none, is a miss.
C17_CasePolicyOfStringPaths ==
    CasePathWords # <<>> /\ Validates =>
        LET first == CasePathWords[1]
            second == CasePathWords[2]
            sections == FoldedKeys(mgr_settings, first)
        IN  IF mgr_source.case_sensitive
            THEN IF first \in DOMAIN mgr_settings.kids
                    /\ second \in DOMAIN mgr_settings.kids[first].kids
                 THEN Returned(mgr_settings.kids[first].kids[second])
                 ELSE Missed
            ELSE IF Cardinality(sections) = 1
                 THEN LET section == mgr_settings.kids[CHOOSE k \in sections : TRUE]
                          names == FoldedKeys(section, second)
                      IN  IF Cardinality(names) = 1
                          THEN Returned(section.kids[CHOOSE k \in names : TRUE])
                          ELSE Missed
                 ELSE Missed

\* Exact policy, sections APP and app: APP.name is "upper".
C17_Witness ==
    /\ CasePathWords = <<"APP", "name">>
    /\ mgr_source.case_sensitive
    /\ mgr_call.raised = NoStr
    /\ mgr_settings # None
    /\ {"APP", "app"} \subseteq DOMAIN mgr_settings.kids
    /\ Returned(Scalar("upper"))

\* Exact policy, sections APP and app: app.name is "lower".
C17_WitnessExactLower ==
    /\ CasePathWords = <<"app", "name">>
    /\ mgr_call.args.field = NoText
    /\ mgr_source.case_sensitive
    /\ mgr_call.raised = NoStr
    /\ mgr_settings # None
    /\ {"APP", "app"} \subseteq DOMAIN mgr_settings.kids
    /\ Returned(Scalar("lower"))

\* Folded policy, sections APP and app: app.name is ambiguous and raises.
C17_WitnessFoldedAmbiguous ==
    /\ CasePathWords = <<"app", "name">>
    /\ ~mgr_source.case_sensitive
    /\ Validates
    /\ {"APP", "app"} \subseteq DOMAIN mgr_settings.kids
    /\ ~mgr_call.args.has_default
    /\ mgr_call.raised = "SettingsResolveError"

\* Folded policy, one section app: App.Name resolves to its name.
C17_WitnessFoldedUnique ==
    /\ CasePathWords = <<"App", "Name">>
    /\ ~mgr_source.case_sensitive
    /\ Validates
    /\ mgr_call.raised = NoStr
    /\ mgr_call.value = mgr_settings.kids.app.kids.name

\* Exact policy: App.Name names nothing.
C17_WitnessExactMiss ==
    /\ CasePathWords = <<"App", "Name">>
    /\ mgr_source.case_sensitive
    /\ Validates
    /\ mgr_call.raised = "SettingsResolveError"

\* The spellings of the control path of the reload mode.
ControlPathTexts ==
    {<<"fastapiex", Sep, "settings", Sep, "reload">>,
     <<"FastAPIEx", Sep, "Settings", Sep, "Reload">>,
     <<"FASTAPIEX", Sep, "SETTINGS", Sep, "RELOAD">>}

\* The settings file sets the reload mode to "always", in some spelling of
\* fastapiex.settings.reload.
FileSetsReload(content) ==
    \E root \in DOMAIN content :
        /\ lower(root) = "fastapiex"
        /\ \E settings_key \in DOMAIN content[root].kids :
               /\ lower(settings_key) = "settings"
               /\ \E key \in DOMAIN content[root].kids[settings_key].kids :
                      /\ lower(key) = "reload"
                      /\ content[root].kids[settings_key].kids[key] = Scalar("always")

\* Some key of the mapping is, up to case, the control key of the parts,
\* and has the value.
SetsControl(mapping, control_key, value) ==
    \E k \in DOMAIN mapping :
        lower_parts(split_env_key(k)) = control_key /\ mapping[k] = value

\* The last call was resolve or resolve_map on the surroundings the manager
\* started with, whose typed root validates.
ResolvedAsStarted ==
    /\ mgr_call.op \in {"resolve", "resolve_map"}
    /\ nchanges = 0
    /\ Validates

\* C18: resolve of the control path of the reload mode gives, in every
\* spelling of the path and under both case policies, the value the settings
\* file sets in whatever spelling, and misses when the file sets none; the
\* reload mode of the file, the case policy of .env and the prefix of the
\* environment are the manager's, whatever the case of their keys.
C18_ControlPathsIgnoreCase ==
    ResolvedAsStarted =>
        /\ mgr_call.op = "resolve" /\ mgr_call.args.target.kind = "str"
              /\ mgr_call.args.target.text \in ControlPathTexts =>
               IF FileSetsReload(files["settings.yaml"])
               THEN Returned(Scalar("always"))
               ELSE Missed
        /\ mgr_source.reload_mode =
               IF FileSetsReload(files["settings.yaml"]) THEN "always" ELSE "off"
        /\ mgr_source.case_sensitive =
               SetsControl(files[".env"], <<"fastapiex", "settings", "case_sensitive">>, Scalar("true"))
        /\ mgr_source.env_prefix =
               IF SetsControl(environ, <<"fastapiex", "settings", "env_prefix">>, "APP__")
               THEN "APP__" ELSE NoStr

\* Under the exact policy, set by an upper-case key of .env, the upper-case
\* path gives the reload mode the file spells FastAPIEx.Settings.Reload; the
\* prefix comes from a lower-case key of the environment.
C18_Witness ==
    /\ ResolvedAsStarted
    /\ mgr_call.op = "resolve"
    /\ mgr_call.args.target = StrTarget(<<"FASTAPIEX", Sep, "SETTINGS", Sep, "RELOAD">>)
    /\ "FastAPIEx" \in DOMAIN files["settings.yaml"]
    /\ "FASTAPIEX__SETTINGS__CASE_SENSITIVE" \in DOMAIN files[".env"]
    /\ "fastapiex__settings__env_prefix" \in DOMAIN environ
    /\ mgr_source.case_sensitive
    /\ mgr_source.reload_mode = "always"
    /\ mgr_source.env_prefix = "APP__"
    /\ Returned(Scalar("always"))

\* Under the folded policy the same call gives the same value.
C18_WitnessFolded ==
    /\ ResolvedAsStarted
    /\ mgr_call.op = "resolve"
    /\ mgr_call.args.target = StrTarget(<<"FASTAPIEX", Sep, "SETTINGS", Sep, "RELOAD">>)
    /\ "FastAPIEx" \in DOMAIN files["settings.yaml"]
    /\ ~mgr_source.case_sensitive
    /\ Returned(Scalar("always"))

\* The last call was resolve or resolve_map with a default, on a store whose
\* effective view fails validation.
FallbackCall ==
    /\ mgr_call.op \in {"resolve", "resolve_map"}
    /\ mgr_call.args.has_default
    /\ ~Validates

\* The signature of the fallback of the last call: the settings path, the
\* key of the request, the class of the error and its message.
FallbackSignature ==
    <<mgr_source.settings_path,
      <<mgr_call.args.api, mgr_call.args.target, mgr_call.args.field>>,
      "SettingsValidationError",
      validate_effective_snapshot_locked(Manager).errors>>

\* C19: a call that falls back to its default because validation failed
\* logs the fallback warning at most once, and only when no earlier call
\* logged one for the same settings path, request key, error class and error
\* message; the signatures logged are never forgotten, so over any sequence
\* of calls each is logged at most once.  Every such call of resolve returns
\* the default, and so does resolve_map when the default is a mapping.
C19_FallbackWarnsOncePerSignature ==
    /\ mgr_pre.validation_fallback_warnings \subseteq mgr_validation_fallback_warnings
    /\ mgr_call.fallback_warnings > 0 => FallbackCall
    /\ FallbackCall =>
           /\ mgr_call.fallback_warnings =
                  IF FallbackSignature \in mgr_pre.validation_fallback_warnings
                  THEN 0 ELSE 1
           /\ mgr_validation_fallback_warnings =
                  mgr_pre.validation_fallback_warnings \cup {FallbackSignature}
           /\ IF mgr_call.op = "resolve" \/ mgr_call.args.default.t = "m"
              THEN Returned(mgr_call.args.default)
              ELSE mgr_call.raised = "SettingsResolveError"

\* The second of two calls that fell back for the same reason returned the
\* default without a warning; the first had logged it.
C19_Witness ==
    /\ FallbackCall
    /\ mgr_call.op = "resolve"
    /\ mgr_pre.call.op = "resolve"
    /\ mgr_pre.call.fallback_warnings = 1
    /\ mgr_pre.call.value = Scalar("fb")
    /\ FallbackSignature \in mgr_pre.validation_fallback_warnings
    /\ mgr_call.fallback_warnings = 0
    /\ Returned(Scalar("fb"))

\* After the file was rewritten the same request fails with another message
\* and the warning is logged again.
C19_WitnessOtherMessage ==
    /\ FallbackCall
    /\ mgr_pre.call.op = "write_file"
    /\ mgr_pre.validation_fallback_warnings # {}
    /\ mgr_call.fallback_warnings = 1
    /\ Cardinality(mgr_validation_fallback_warnings) = 2
    /\ Returned(mgr_call.args.default)

(***************************************************************************)
(* Claims about reload (checked under SpecSync).                           *)
(***************************************************************************)
\* The last call was reload() on an initialised manager.
ReloadOfInitialised == mgr_call.op = "reload" /\ mgr_pre.source # None

\* C20: reload() on an initialised manager returns with the typed root
\* validated anew from the store, whether or not a source, the registry or
\* the store changed since the last refresh; a value a caller had assigned
\* to a field of a record read earlier is not in it.
C20_ReloadRebuildsRoot ==
    ReloadOfInitialised =>
        /\ mgr_call.raised = NoStr
        /\ RootFromStore
        /\ AppName(mgr_settings) # "mutated"
        /\ mgr_snapshot_live_version = version

\* A caller set app.name of the record it had read to "mutated"; nothing
\* else changed and nothing was outdated; reload left the store as it was
\* and the root holds the name of the store again.
C20_Witness ==
    /\ ReloadOfInitialised
    /\ mgr_pre.call.op = "mutate"
    /\ AppName(mgr_pre.settings) = "mutated"
    /\ mgr_pre.snapshot_live_version = mgr_pre.version
    /\ mgr_pre.registry_version = reg_version
    /\ entries(slots) = entries(mgr_pre.slots)
    /\ mgr_call.raised = NoStr
    /\ AppName(mgr_settings) # "mutated"
    /\ RootFromStore

(***************************************************************************)
(* Further claims about the store (checked under SpecStore).               *)
(***************************************************************************)
\* C25 as stated: reset returns True exactly when materialize() after the
\* call differs from materialize() before it.
C25_ResetReportsViewChangeAsStated ==
    call.op = "reset" => (call.ret <=> MatNow # MatBefore)

\* C25 (amended): reset returns True exactly when the seeded slots, every
\* value stamped with the priority of its source, differ from the slots held,
\* in a value or in a revision; so it returns True whenever materialize()
\* differs, and after False the slots, the version and materialize() are as
\* before.
C25_ResetReportsSlotChange ==
    call.op = "reset" =>
        /\ \A path \in DOMAIN slots : \A source \in DOMAIN slots[path] :
               slots[path][source] =
                   SourceValue(SOURCE_PRIORITY[source], Flat(call.args[source])[path])
        /\ call.ret <=> (slots # pre.slots)
        /\ MatNow # MatBefore => call.ret
        /\ call.ret => version = pre.version + 1
        /\ ~call.ret => version = pre.version /\ MatNow = MatBefore

\* reset with the content replace_sources had written: True is returned and
\* the version advances although materialize() is as before.
C25_Witness ==
    /\ call.op = "reset"
    /\ pre.op = "replace_sources"
    /\ \A source \in SourceNames :
           SourceContent(pre.slots, source) = Flat(call.args[source])
    /\ call.ret
    /\ version = pre.version + 1
    /\ MatNow = MatBefore

\* reset with what the slots already hold returns False.
C25_WitnessUnchanged ==
    /\ call.op = "reset"
    /\ pre.op = "reset"
    /\ slots # EmptyFn
    /\ ~call.ret
    /\ MatNow = MatBefore

\* The value of the winner of a stored path.
WinnerValue(path) == slots[path][pick_winner(slots[path])].value

\* Some other stored path is a strict prefix or a strict extension of path.
Overlapped(path) == \E other \in DOMAIN slots : Overlaps(path, other)

\* The paths of the leaves of materialize() and their values.
MatLeaves == flatten_mapping(MatNow.kids, <<>>)

\* C26 as stated: a path is in materialize() with its winner's value exactly
\* when its slot is non-empty, stored paths that are prefixes of one another
\* included.
C26_PresentIffStoredAsStated ==
    /\ \A path \in DOMAIN slots : Lookup(MatNow, path) = WinnerValue(path)
    /\ \A path \in DOMAIN MatLeaves : path \in DOMAIN slots

\* C26 (amended): every stored path of which no other stored path is a
\* strict prefix or extension is in materialize() with its winner's value;
\* every leaf of materialize() is a stored path and has its winner's value;
\* of two stored paths one of which is a strict prefix of the other, at most
\* one is in materialize() with its winner's value.
C26_PresentIffStored ==
    /\ \A path \in DOMAIN slots :
           ~Overlapped(path) => Lookup(MatNow, path) = WinnerValue(path)
    /\ \A path \in DOMAIN MatLeaves :
           path \in DOMAIN slots /\ MatLeaves[path] = WinnerValue(path)
    /\ \A p, q \in DOMAIN slots :
           StrictPrefix(p, q) =>
               \/ Lookup(MatNow, p) # WinnerValue(p)
               \/ Lookup(MatNow, q) # WinnerValue(q)

\* Two stored paths without overlap, held by several sources, are both in
\* materialize() with the values of their winners, which differ.
C26_Witness ==
    /\ call.op = "replace_sources"
    /\ \E p, q \in DOMAIN slots :
          /\ p # q
          /\ ~Overlapped(p) /\ ~Overlapped(q)
          /\ Cardinality(DOMAIN slots[p]) > 1
          /\ pick_winner(slots[p]) # pick_winner(slots[q])
          /\ Lookup(MatNow, p) = WinnerValue(p)
          /\ Lookup(MatNow, q) = WinnerValue(q)

\* A scalar stored at app by one source hides app.name stored by another.
C26_WitnessPrefixHides ==
    \E p, q \in DOMAIN slots :
        /\ StrictPrefix(p, q)
        /\ Lookup(MatNow, p) = WinnerValue(p)
        /\ WinnerValue(p).t = "s"
        /\ Lookup(MatNow, q) = None

\* A value stored at app.name by one source replaces the scalar stored at app
\* by another.
C26_WitnessExtensionReplaces ==
    \E p, q \in DOMAIN slots :
        /\ StrictPrefix(p, q)
        /\ WinnerValue(p).t = "s"
        /\ Lookup(MatNow, q) = WinnerValue(q)
        /\ Lookup(MatNow, p) # WinnerValue(p)

\* C28: in every state of the store every revision held in a slot is at most
\* the revision counter, no stored slot is empty, and the cached
\* materialization, when there is one, is the materialization of the slots
\* held, so none outlives a change of the slots; the version never decreases
\* and a call that leaves it leaves the cached materialization.
C28_StoreInvariants ==
    /\ \A r \in SlotRevs(slots) : r <= rev
    /\ \A path \in DOMAIN slots : DOMAIN slots[path] # {}
    /\ cached_materialized # None =>
           /\ cached_materialized = build_materialized_snapshot(compute_winners(slots))
           /\ version = pre.version => pre.cached_materialized \in {None, cached_materialized}
    /\ version >= pre.version

\* materialize() cached a view, a replace_sources call then removed the last
\* source of a path and wrote another: the cache is gone, the emptied slot is
\* not stored, and the new revision is the counter.
C28_Witness ==
    /\ call.op = "replace_sources"
    /\ call.ret
    /\ pre.cached_materialized # None
    /\ cached_materialized = None
    /\ \E path \in DOMAIN pre.slots : path \notin DOMAIN slots
    /\ rev \in SlotRevs(slots)
    /\ rev > pre.rev

\* A call that changed nothing left the cached view, which is still that of
\* the slots.
C28_WitnessCacheKept ==
    /\ call.op \in {"reset", "replace_sources"}
    /\ ~call.ret
    /\ slots # EmptyFn
    /\ cached_materialized # None

(***************************************************************************)
(* Further claims about the registry (checked under SpecRegistry).         *)
(***************************************************************************)
\* C29: in every state of the registry the path index holds, under each
\* canonical path, the one section of that path, every model with a record
\* has exactly one section in the index and no section is of a model without
\* a record, no two sections share a model, and no section's first path
\* part is the control root up to case.
C29_RegistryInvariants ==
    /\ \A path \in DOMAIN sections_by_path :
           /\ sections_by_path[path].path = path
           /\ sections_by_path[path].model \in DOMAIN records_by_model
           /\ records_by_model[sections_by_path[path].model].raw_path
                  = sections_by_path[path].raw_path
           /\ casefold(path[1]) # <<CONTROL_ROOT>>
    /\ \A p, q \in DOMAIN sections_by_path :
           sections_by_path[p].model = sections_by_path[q].model => p = q
    /\ \A model \in DOMAIN records_by_model :
           \E path \in DOMAIN sections_by_path : sections_by_path[path].model = model

\* With two sections registered, a declaration at FastAPIEx.db was refused
\* and left the registry as it was.
C29_Witness ==
    /\ reg_call.op = "register_section"
    /\ reg_call.args.raw_path = <<"FastAPIEx", Sep, "db">>
    /\ reg_call.args.cls \in Models
    /\ reg_call.args.kind \in SectionKinds
    /\ reg_call.raised
    /\ Cardinality(DOMAIN sections_by_path) = 2
    /\ RegistryFields = reg_pre

\* A declaration of a second model at a path already indexed was refused.
C29_WitnessDuplicatePath ==
    /\ reg_call.op = "register_section"
    /\ reg_call.raised
    /\ canonicalize_path(reg_call.args.raw_path).ok
    /\ canonicalize_path(reg_call.args.raw_path).path \in DOMAIN sections_by_path
    /\ sections_by_path[canonicalize_path(reg_call.args.raw_path).path].model
           # reg_call.args.cls
    /\ reg_call.args.cls \in Models
    /\ reg_call.args.kind \in SectionKinds

\* ---------------------------------------------------------------------
\* Claims about declarations and assembly (checked under SpecDeclare)
\* ---------------------------------------------------------------------

\* The sections hold a section under a map section, or a section under a
\* part named as a field of the model declared one level above.
NestedConflict(sections) ==
    \E q \in DOMAIN sections :
        \E k \in 1..(Len(q) - 1) :
            /\ SubSeq(q, 1, k) \in DOMAIN sections
            /\ \/ sections[SubSeq(q, 1, k)].kind = "map"
               \/ part_key(q[k + 1]) \in DOMAIN ModelFields[sections[SubSeq(q, 1, k)].model]

\* register_section refused a declaration at a path another model holds.
RefusedDuplicate(before, args) ==
    /\ canonicalize_path(args.raw_path).path \in DOMAIN before.sections
    /\ before.sections[canonicalize_path(args.raw_path).path].model # args.cls

\* C22 as stated: every registration the registry accepts yields an
\* assemblable section set, so the sections indexed never hold a nested
\* conflict and get() never raises the registration error.
C22_AcceptedAssemblesAsStated ==
    /\ ~NestedConflict(sections_by_path)
    /\ mgr_call.raised # "SettingsRegistrationError"

\* C22, amended: register_section refuses, among valid declarations, only a
\* path held by another model, and then leaves the registry as it was; a
\* section under a map section, a map section over nested sections and a
\* nested section named as a field of its parent's model are accepted, and
\* get() raises the registration error exactly when the sections indexed
\* hold such a conflict.
C22_ConflictRaisesAtAssembly ==
    [][/\ reg_ncalls' # reg_ncalls =>
              /\ reg_call'.raised <=> RefusedDuplicate(reg_pre', reg_call'.args)
              /\ reg_call'.raised => RegistryFields' = reg_pre'
       /\ mgr_ncalls' # mgr_ncalls =>
              ((mgr_call'.raised = "SettingsRegistrationError")
                   <=> NestedConflict(sections_by_path))]_vars

\* @SettingsMap("app") after @Settings("app.db") was accepted, and the
\* get() that followed raised the registration error.
C22_Witness ==
    /\ reg_call.op = "register_section"
    /\ ~reg_call.raised
    /\ reg_call.args.kind = "map"
    /\ reg_call.args.raw_path = <<"app">>
    /\ <<<<"app">>, <<"db">>>> \in DOMAIN reg_pre.sections
    /\ <<<<"app">>, <<"db">>>> \in DOMAIN sections_by_path
    /\ mgr_call.op = "get"
    /\ mgr_call.raised = "SettingsRegistrationError"
    /\ mgr_call.message = <<"map section cannot have nested section">>

\* @Settings("app.name") under a class with a field name was accepted, and
\* the get() that followed raised the registration error.
C22_WitnessFieldCollision ==
    /\ reg_call.op = "register_section"
    /\ ~reg_call.raised
    /\ reg_call.args.raw_path = <<"app", Sep, "name">>
    /\ <<<<"app">>>> \in DOMAIN sections_by_path
    /\ sections_by_path[<<<<"app">>>>].kind = "object"
    /\ mgr_call.op = "get"
    /\ mgr_call.raised = "SettingsRegistrationError"
    /\ mgr_call.message = <<"nested declaration conflicts with existing field">>

\* A declaration was refused for its path, and get() returned the settings.
C22_WitnessRefused ==
    /\ reg_call.op = "register_section"
    /\ reg_call.raised
    /\ mgr_call.op = "get"
    /\ mgr_call.raised = NoStr
    /\ mgr_ncalls = MgrMaxCalls

\* ---------------------------------------------------------------------
\* Termination of the control convergence (checked under SpecManager)
\* ---------------------------------------------------------------------

\* The last call went through _prepare_runtime_locked.
Prepared ==
    /\ mgr_call.op \in {"init", "get", "reload"}
    /\ mgr_call.raised \notin {"different source", "settings are not initialized"}
    /\ mgr_source # None

\* The last call ran _converge_controls_locked: it forced the refresh or
\* found no settings.
Converged ==
    /\ Prepared
    /\ mgr_call.op \in {"init", "reload"} \/ mgr_pre.settings = None

\* The settings paths of the last convergence in the order they were
\* visited: where it started, then every path it switched to.
VisitedPaths == <<ChainStart>> \o mgr_call.path_switches

RECURSIVE FileReach(_, _)
\* The settings paths reachable from path through the redirects of the
\* files, seen being those reached so far.
FileReach(path, seen) ==
    IF FileRedirect(path) \in seen THEN seen
    ELSE FileReach(FileRedirect(path), seen \cup {FileRedirect(path)})

\* C30: the control convergence terminates: the paths of an attempt, its
\* start and every path it switched to, are pairwise distinct, so no path is
\* read twice, the manager is left on the last of them, at most one cycle
\* warning is logged, and the switches are no more than the distinct paths
\* switched to, the start not among them.  With no settings path or base_dir control in the
\* environment, every switch goes where the file just read redirects, the
\* loop exits on a file that keeps its path or, with the warning, on a file
\* that redirects to a visited path, and the switches are fewer than the
\* distinct settings paths reachable through the chain of redirects.
C30_ConvergenceTerminates ==
    Prepared =>
        /\ \A i, j \in 1..Len(VisitedPaths) : VisitedPaths[i] = VisitedPaths[j] => i = j
        /\ mgr_source.settings_path = VisitedPaths[Len(VisitedPaths)]
        /\ mgr_call.cycle_warnings \in {0, 1}
        /\ Len(mgr_call.path_switches)
               <= Cardinality({mgr_call.path_switches[i] :
                                  i \in 1..Len(mgr_call.path_switches)} \ {ChainStart})
        /\ (Converged /\ NoPathInEnvironment) =>
               /\ \A i \in 1..Len(mgr_call.path_switches) :
                      mgr_call.path_switches[i] = FileRedirect(VisitedPaths[i])
               /\ IF mgr_call.cycle_warnings = 0
                  THEN FileRedirect(mgr_source.settings_path) = mgr_source.settings_path
                  ELSE /\ FileRedirect(mgr_source.settings_path) # mgr_source.settings_path
                       /\ \E i \in 1..Len(VisitedPaths) :
                              VisitedPaths[i] = FileRedirect(mgr_source.settings_path)
               /\ Len(mgr_call.path_switches)
                      < Cardinality(FileReach(ChainStart, {ChainStart}))

\* A convergence switched twice and then froze on the third path, whose
\* controls name the first one.
C30_Witness ==
    /\ Converged
    /\ Len(mgr_call.path_switches) = 2
    /\ mgr_call.cycle_warnings = 1
    /\ NoPathInEnvironment
    /\ FileRedirect(mgr_source.settings_path) = ChainStart

\* A convergence switched twice and settled without a warning.
C30_WitnessChain ==
    /\ Converged
    /\ NoPathInEnvironment
    /\ Len(mgr_call.path_switches) = 2
    /\ mgr_call.cycle_warnings = 0

\* With a settings path in the environment, a convergence switched once
\* and froze with the warning.
C30_WitnessEnvironment ==
    /\ Converged
    /\ ~NoPathInEnvironment
    /\ Len(mgr_call.path_switches) = 1
    /\ mgr_call.cycle_warnings = 1

\* ---------------------------------------------------------------------
\* What a caller is given (checked under SpecSharing)
\* ---------------------------------------------------------------------

\* The last call repeated, without a default, the request whose result, a
\* mapping (t = "m") or a record (t = "o"), the caller had changed in place.
ReadAfterMutation(t) ==
    /\ mgr_call.op \in {"resolve", "resolve_map"}
    /\ mgr_pre.call.op = "mutate_returned"
    /\ mgr_pre.call.args.request = mgr_call.args
    /\ mgr_pre.call.args.returned.t = t
    /\ ~mgr_call.args.has_default

\* The last call rebuilt the typed root: the reload mode was always.
RebuiltRoot == mgr_pre.source.reload_mode = "always"

\* C27 as stated: a mapping returned by resolve / resolve_map is a deep copy,
\* so the read that follows its mutation returns what the first read
\* returned; a record is shared, so the read that follows its mutation
\* returns the mutated record unless the typed root was rebuilt.
C27_MappingCopiedAsStated ==
    /\ ReadAfterMutation("m") => Returned(mgr_pre.call.args.returned)
    /\ (ReadAfterMutation("o") /\ ~RebuiltRoot)
           => Returned(mutated(mgr_pre.call.args.returned))

\* C27, amended: resolve / resolve_map return the object the typed root
\* holds, a mapping as well as a record: the read that follows a mutation
\* of the returned value returns the mutated value, unless the typed root
\* was rebuilt in between, and then it returns what the first read did.
C27_ReturnedValueIsShared ==
    \A t \in {"m", "o"} :
        ReadAfterMutation(t) =>
            Returned(IF RebuiltRoot THEN mgr_pre.call.args.returned
                     ELSE mutated(mgr_pre.call.args.returned))

\* resolve_map("peers") returned the emptied mapping after the caller had
\* cleared the one it was given.
C27_Witness ==
    /\ ReadAfterMutation("m")
    /\ mgr_call.op = "resolve_map"
    /\ mgr_call.args.target = StrTarget(<<"peers">>)
    /\ ~RebuiltRoot
    /\ mgr_pre.call.args.returned.kids # EmptyFn
    /\ Returned(Dict(EmptyFn))

\* resolve("app") returned the record the caller had renamed.
C27_WitnessRecord ==
    /\ ReadAfterMutation("o")
    /\ mgr_call.args.target = StrTarget(<<"app">>)
    /\ ~RebuiltRoot
    /\ mgr_call.raised = NoStr
    /\ mgr_call.value.kids.name = Scalar("mutated")

\* Under reload mode always the read after the mutation returned the
\* mapping as it was first given.
C27_WitnessRebuilt ==
    /\ ReadAfterMutation("m")
    /\ RebuiltRoot
    /\ mgr_pre.call.args.returned.kids # EmptyFn
    /\ Returned(mgr_pre.call.args.returned)

(***************************************************************************)
(* Module rediscovery (checked under SpecRediscovery).                     *)
(***************************************************************************)
\* The last registry step is a rediscovery that returned.
Rediscovered == reg_call.op = "rediscover_delta" /\ ~reg_call.raised

PreviousSnapshot == reg_call.args.previous_snapshot

CurrentSnapshot == reg_call.args.current_snapshot

RemovedOwners == DOMAIN PreviousSnapshot \ DOMAIN CurrentSnapshot

AddedOwners == DOMAIN CurrentSnapshot \ DOMAIN PreviousSnapshot

ChangedOwners ==
    {name \in DOMAIN PreviousSnapshot \cap DOMAIN CurrentSnapshot :
        PreviousSnapshot[name] # CurrentSnapshot[name]}

\* The record of the class is the declaration, owned by the live generation.
RegisteredAsDeclared(name, declaration) ==
    /\ declaration.cls \in DOMAIN records_by_model
    /\ records_by_model[declaration.cls]
         = SectionRecord(declaration.raw_path, declaration.cls, declaration.kind,
                         name, CurrentSnapshot[name])

\* The resolve that follows the rediscovery asks for a section the registry
\* held before the rediscovery and no longer holds.
ServedByRemovedSection ==
    /\ mgr_call.op \in {"resolve", "resolve_map"}
    /\ mgr_pre.call.op = "rediscover_delta"
    /\ IF mgr_call.args.target.kind = "str"
       THEN /\ <<<<"app">>>> \in DOMAIN reg_pre.sections
            /\ <<<<"app">>>> \notin DOMAIN sections_by_path
            /\ mgr_call.args.target.text = <<"app">>
       ELSE /\ mgr_call.args.target.cls \in DOMAIN reg_pre.records
            /\ mgr_call.args.target.cls \notin DOMAIN records_by_model

C21_WitnessRemovedMisses ==
    /\ Rediscovered
    /\ "m1" \in RemovedOwners
    /\ ServedByRemovedSection
    /\ mgr_call.args.target.kind = "type"
    /\ mgr_call.raised = "SettingsResolveError"

\* A module is imported and its declaration is registered.
C21_WitnessAdded ==
    /\ Rediscovered
    /\ mgr_call.op = "rediscover_delta"
    /\ "m2" \in AddedOwners
    /\ "B" \in DOMAIN records_by_model
    /\ "B" \notin DOMAIN reg_pre.records

\* The module is replaced by a generation that declares nothing, and a
\* rediscovery that finds the modules as they were reports False.
C21_WitnessNothingDeclared ==
    /\ Rediscovered
    /\ mgr_call.op = "rediscover_delta"
    /\ "m1" \in ChangedOwners
    /\ CurrentSnapshot["m1"] = 3
    /\ records_by_model = EmptyFn
    /\ reg_pre.records # EmptyFn

C21_WitnessUnchanged ==
    /\ Rediscovered
    /\ mgr_call.op = "rediscover_delta"
    /\ PreviousSnapshot = CurrentSnapshot
    /\ mgr_call.value = Bool(FALSE)


(***************************************************************************)
(* The registry under concurrent calls (checked under SpecThreads).        *)
(***************************************************************************)
ThreadsReturned ==
    /\ DOMAIN reg_threads = Threads
    /\ \A t \in Threads : reg_threads[t].pc = "done"

\* The call made alone on a registry with the fields of reg.
called_alone(reg, thread_call) ==
    IF thread_call.op = "register_section"
    THEN registered(reg, thread_call.raw_path, thread_call.cls, thread_call.kind,
                    thread_call.owner_module, thread_call.owner_identity)
    ELSE unregistered(reg, thread_call.owner_module, thread_call.owner_identity)

\* The registry fields once first made its call and then second, from the
\* fields the threads found.
SequentialOrder(first, second) ==
    LET done == called_alone(called_alone(reg_pre, reg_threads[first].call),
                             reg_threads[second].call)
    IN  [records |-> done.records, sections |-> done.sections, version |-> done.version]

\* Thread t registered its class and returned.
RegisteredBy(t) ==
    /\ reg_threads[t].call.op = "register_section"
    /\ ~reg_threads[t].raised

\* The record of the class thread t registered is held.
HoldsRecordOf(t) ==
    /\ reg_threads[t].call.cls \in DOMAIN records_by_model
    /\ records_by_model[reg_threads[t].call.cls]
         = SectionRecord(reg_threads[t].call.raw_path, reg_threads[t].call.cls,
                         reg_threads[t].call.kind, reg_threads[t].call.owner_module,
                         reg_threads[t].call.owner_identity)

\* C23 as stated: register_section and unregister_owner are atomic with
\* respect to each other when called from concurrent threads: once both
\* threads returned, the records, the path index and the version are those
\* of one of the two sequential orders of the calls, and where one thread's
\* register_section raised and rolled back, the record the other thread
\* registered is still held.
C23_AtomicAsStated ==
    ThreadsReturned =>
        /\ \E first \in Threads, second \in Threads :
              /\ first # second
              /\ RegistryFields = SequentialOrder(first, second)
        /\ \A t \in Threads, u \in Threads :
              /\ t # u
              /\ reg_threads[t].call.op = "register_section"
              /\ reg_threads[t].raised
              /\ RegisteredBy(u)
              => HoldsRecordOf(u)

(***************************************************************************)
(* The manager shared by threads (checked under SpecLocked).               *)
(***************************************************************************)
PublicEntries == {"init", "get", "reload", "resolve", "resolve_map", "register_source_sync"}

\* The threads in the with block of a public entry.
Holders == {t \in DOMAIN mgr_lock : mgr_lock[t] # "out"}

\* The last step recorded is the block of a public entry, run by a thread
\* that has not released the lock yet.
EntryRan == mgr_call.op \in PublicEntries /\ \E t \in DOMAIN mgr_lock : mgr_lock[t] = "ran"

\* The entries of the store, as pairs of path and source.
StoredEntries(stored) ==
    UNION {{<<path, source>> : source \in DOMAIN stored[path]} : path \in DOMAIN stored}

\* The entries the last call wrote: those it left that were not held, with
\* the same value and revision, when it started.
Stamped ==
    {entry \in StoredEntries(slots) :
        ~ /\ entry \in StoredEntries(mgr_pre.slots)
          /\ mgr_pre.slots[entry[1]][entry[2]] = slots[entry[1]][entry[2]]}

StampedRev(entry) == slots[entry[1]][entry[2]].rev

\* The last call seeded the store again: an init, or the first call of a
\* manager that was not initialised.
Reseeded == mgr_call.op = "init" \/ mgr_pre.source = None

\* The revisions of the last call are new: above the counter as it was,
\* with one revision for each source written.
RevisionsAdvance ==
    /\ rev >= mgr_pre.rev
    /\ \A entry \in Stamped : StampedRev(entry) > mgr_pre.rev
    /\ \A one \in Stamped, other \in Stamped :
          one[2] # other[2] => StampedRev(one) # StampedRev(other)

C24_WitnessReseeded ==
    /\ EntryRan
    /\ mgr_call.op = "init"
    /\ mgr_call.raised = NoStr
    /\ mgr_pre.source # None
    /\ \E entry \in Stamped : StampedRev(entry) <= mgr_pre.rev

\* A thread is kept out while the other is in the block of an entry.
C24_WitnessKeptOut ==
    /\ \E t \in DOMAIN mgr_lock : mgr_lock[t] = "in"
    /\ \E t \in DOMAIN mgr_lock : mgr_lock[t] = "out"
    /\ mgr_call.op \in PublicEntries
    /\ mgr_ncalls = 1

(***************************************************************************)
(* The records and their owners (checked under SpecRegistry).              *)
(***************************************************************************)
\* C35: in every state of the registry the path index is the index of the
\* stored records (one section for each record, none for a removed one),
\* all records of one owner module carry the same owner identity, and a
\* re-registration identical to a stored record leaves the records, the
\* index and the version as they were: it drops no record as stale.
C35_IndexOfRecordsOneGeneration ==
    /\ reindex(records_by_model).ok
    /\ sections_by_path = reindex(records_by_model).sections
    /\ Cardinality(DOMAIN sections_by_path) = Cardinality(DOMAIN records_by_model)
    /\ \A one \in DOMAIN records_by_model, other \in DOMAIN records_by_model :
           records_by_model[one].owner_module = records_by_model[other].owner_module
               => records_by_model[one].owner_identity = records_by_model[other].owner_identity
    /\ IdenticalReRegistration => RegistryFields = reg_pre

\* A module registers again, in a new generation, one of the two classes it
\* had registered: the record of the other class is dropped with its section.
C35_Witness ==
    /\ reg_call.op = "register_section"
    /\ ~reg_call.raised
    /\ Cardinality(DOMAIN reg_pre.records) = 2
    /\ \A model \in DOMAIN reg_pre.records :
           /\ reg_pre.records[model].owner_module = reg_call.args.owner_module
           /\ reg_pre.records[model].owner_identity # reg_call.args.owner_identity
    /\ DOMAIN records_by_model = {reg_call.args.cls}
    /\ Cardinality(DOMAIN sections_by_path) = 1

\* A declaration the registry holds is registered again.
C35_WitnessIdentical ==
    /\ IdenticalReRegistration
    /\ Cardinality(DOMAIN records_by_model) = 2

(***************************************************************************)
(* reload and the store version (checked under SpecSync).                  *)
(***************************************************************************)
\* The last call was reload() on a manager without a source.
ReloadOfUninitialised == mgr_call.op = "reload" /\ mgr_pre.source = None

\* C34 as stated: reload() on an initialised manager leaves it initialised
\* with a store version strictly greater than before the call; reload() on
\* an uninitialised manager raises and leaves it uninitialised.
C34_ReloadAdvancesVersionAsStated ==
    /\ ReloadOfInitialised => mgr_source # None /\ version > mgr_pre.version
    /\ ReloadOfUninitialised => mgr_call.raised # NoStr /\ mgr_source = None

\* C34 (amended): reload() on an initialised manager leaves it initialised
\* with a store version not less than before the call, greater exactly when
\* the call wrote an entry of the store or removed one; reload() on an
\* uninitialised manager raises RuntimeError and leaves the manager without
\* a source, a store and a typed root.
C34_ReloadAdvancesVersionOnChange ==
    /\ ReloadOfInitialised =>
           /\ mgr_source # None
           /\ version >= mgr_pre.version
           /\ version > mgr_pre.version <=> slots # mgr_pre.slots
    /\ ReloadOfUninitialised =>
           /\ mgr_call.raised = "settings are not initialized"
           /\ mgr_source = None
           /\ ~mgr_live_config
           /\ mgr_settings = None
           /\ version = mgr_pre.version

\* The settings file was rewritten and reload stored its new content: the
\* version grew.
C34_Witness ==
    /\ ReloadOfInitialised
    /\ mgr_pre.call.op = "write_file"
    /\ version > mgr_pre.version

\* Nothing changed since the last read; reload wrote nothing and the version
\* stayed.
C34_WitnessUnchanged ==
    /\ ReloadOfInitialised
    /\ mgr_pre.call.op \in {"init", "get"}
    /\ mgr_call.raised = NoStr
    /\ version = mgr_pre.version

\* reload() is the first call made.
C34_WitnessUninitialised ==
    /\ ReloadOfUninitialised
    /\ mgr_call.raised # NoStr
    /\ mgr_source = None

(***************************************************************************)
(* The order of the steps of a call (checked under SpecResolve).           *)
(***************************************************************************)
\* The place of a step in a preparation pass; the sync of a path switch is
\* part of the convergence that makes the switch.
StepRank ==
    [sync |-> 1, converge |-> 2, path_sync |-> 2, rediscover |-> 3, refresh |-> 4,
     query |-> 5]

\* No step of steps follows a step of a later kind.
InOrder(steps) ==
    \A i \in 1..Len(steps), j \in 1..Len(steps) :
        i < j => StepRank[steps[i].kind] <= StepRank[steps[j].kind]

\* The steps of one preparation pass and the read that follows it: in order,
\* with one refresh and at most one read, the last step.
OnePass(steps) ==
    /\ InOrder(steps)
    /\ Cardinality({i \in 1..Len(steps) : steps[i].kind = "refresh"}) = 1
    /\ Cardinality({i \in 1..Len(steps) : steps[i].kind = "query"}) <= 1

PublicCall == mgr_call.op \in {"init", "get", "reload", "resolve", "resolve_map"}

\* The last call was a resolve that ran the retry phase: its steps hold two
\* refreshes.
RetriedResolve ==
    /\ mgr_call.op \in {"resolve", "resolve_map"}
    /\ Cardinality({i \in 1..Len(mgr_call.steps) : mgr_call.steps[i].kind = "refresh"}) = 2

\* C31 as stated: within one public call no step of an earlier kind (source
\* sync, control convergence, module rediscovery, refresh, query, in this
\* order) runs after a step of a later kind, resolve calls that retry after
\* a miss included.
C31_StepsInOrderAsStated == PublicCall => InOrder(mgr_call.steps)

\* C31 (amended): the steps of init, get and reload, and of a resolve whose
\* first attempt resolved or whose miss the miss cache remembers, are one
\* preparation pass in the order source sync, control convergence, module
\* rediscovery, refresh, query; a resolve that retries runs after the refresh
\* or query of its first pass a module rediscovery and then a second pass in
\* the same order, without a rediscovery of its own.
C31_StepsInOrderWithinPass ==
    /\ (PublicCall /\ ~RetriedResolve /\ mgr_call.steps # <<>>) => OnePass(mgr_call.steps)
    /\ RetriedResolve =>
           \E k \in 2..Len(mgr_call.steps) :
               /\ mgr_call.steps[k].kind = "rediscover"
               /\ mgr_call.steps[k - 1].kind \in {"refresh", "query"}
               /\ OnePass(SubSeq(mgr_call.steps, 1, k - 1))
               /\ OnePass(SubSeq(mgr_call.steps, k + 1, Len(mgr_call.steps)))
               /\ \A i \in (k + 1)..Len(mgr_call.steps) :
                      mgr_call.steps[i].kind # "rediscover"

\* A resolve missed, rediscovered and retried: after the query of the first
\* pass the sources were synced and the runtime refreshed again.
C31_Witness ==
    /\ RetriedResolve
    /\ \E i \in 1..Len(mgr_call.steps), j \in 1..Len(mgr_call.steps) :
           /\ i < j
           /\ mgr_call.steps[i].kind = "query"
           /\ mgr_call.steps[j].kind = "sync"

\* A resolve that resolved at once: one pass of five kinds of steps.
C31_WitnessOnePass ==
    /\ mgr_call.op = "resolve"
    /\ mgr_call.raised = NoStr
    /\ ~RetriedResolve
    /\ {mgr_call.steps[i].kind : i \in 1..Len(mgr_call.steps)}
           = {"sync", "converge", "rediscover", "refresh", "query"}

(***************************************************************************)
(* When a pass refreshes (checked under SpecDeclare).                      *)
(***************************************************************************)
\* The plans of the refresh steps of the last call.
RefreshPlans ==
    {mgr_call.steps[i].plan : i \in {j \in 1..Len(mgr_call.steps) :
                                        mgr_call.steps[j].kind = "refresh"}}

\* The last call was init, get or reload and reached its refresh step.
OnePassRefresh ==
    mgr_call.op \in {"init", "get", "reload"} /\ Cardinality(RefreshPlans) = 1

\* C32: a preparation pass validates the typed root anew if and only if it
\* is forced, the registry version differs from the one the schema was built
\* at, the store version differs from the one of the last stored root, or
\* there is no root yet; a refresh that succeeds leaves the root validated
\* from the store and the remembered registry and store versions equal to
\* the versions the pass read, and a pass that does not refresh leaves the
\* root and the remembered versions as they were.  The registry version of a
\* plan is registry.version() as the pass read it.
C32_RefreshIffOutdated ==
    /\ \A plan \in RefreshPlans :
           /\ plan.live_version = version
           /\ plan.should_refresh <=>
                  \/ plan.force
                  \/ plan.registry_version # plan.schema_version
                  \/ plan.live_version # plan.snapshot_version
                  \/ plan.settings_missing
    /\ OnePassRefresh =>
           \A plan \in RefreshPlans :
               /\ (plan.should_refresh /\ mgr_call.raised = NoStr) =>
                      /\ RootFromStore
                      /\ mgr_registry_version = plan.registry_version
                      /\ mgr_snapshot_live_version = version
               /\ ~plan.should_refresh =>
                      /\ mgr_call.raised = NoStr
                      /\ mgr_settings = mgr_pre.settings
                      /\ mgr_registry_version = mgr_pre.registry_version
                      /\ mgr_snapshot_live_version = mgr_pre.snapshot_live_version
                      /\ mgr_registry_version = plan.registry_version
                      /\ mgr_snapshot_live_version = version

\* A class was declared after the last read: the next get is not forced,
\* finds the registry version ahead of the schema's and refreshes.
C32_Witness ==
    /\ OnePassRefresh
    /\ mgr_call.raised = NoStr
    /\ mgr_pre.settings # None
    /\ \E plan \in RefreshPlans :
           /\ ~plan.force
           /\ plan.registry_version # plan.schema_version
           /\ plan.live_version = plan.snapshot_version
           /\ plan.should_refresh
           /\ mgr_registry_version = plan.registry_version

\* Nothing is outdated and the pass is not forced: no refresh.
C32_WitnessNoRefresh ==
    /\ OnePassRefresh
    /\ \E plan \in RefreshPlans : ~plan.should_refresh
    /\ mgr_settings = mgr_pre.settings

(***************************************************************************)
(* The root a read serves (checked under SpecLater).                       *)
(***************************************************************************)
\* The last call returned the typed root or a value found in it.
ServedFromRoot ==
    /\ mgr_call.raised = NoStr
    /\ \/ mgr_call.op = "get"
       \/ mgr_call.op = "resolve" /\ mgr_call.shared

\* No class was declared since the last call read the registry version.
RegistryAsRead == \A plan \in RefreshPlans : plan.registry_version = reg_version

\* The typed root the sections of the registry and the store validate to.
CurrentRoot ==
    validate_effective_snapshot_locked(
        [Manager EXCEPT !.schema = build_root_settings_model(sections_by_path)])

\* C37: whenever get or resolve returns a value computed from the typed
\* root, that root is the one validated under the current registry version
\* and the current store version; after a refresh whose validation failed no
\* call, and no retry inside a resolve, serves the older root without an
\* error while registry and store are unchanged.
C37_ServedRootIsCurrent ==
    (ServedFromRoot /\ RegistryAsRead) =>
        /\ mgr_registry_version = reg_version
        /\ mgr_snapshot_live_version = version
        /\ mgr_settings = CurrentRoot

(***************************************************************************)
(* The miss cache (checked under SpecLater).                               *)
(***************************************************************************)
ResolveCall == mgr_call.op \in {"resolve", "resolve_map"}

\* The key of the request of the last call in the miss cache.
RequestKey == cache_key(mgr_call.args)

\* The pair (registry.version(), self._module_fingerprint) as the last pass
\* of the last call read it.
PairAtCall ==
    <<mgr_call.steps[Len(mgr_call.steps) - (IF mgr_call.steps[Len(mgr_call.steps)].kind = "query"
                                            THEN 1 ELSE 0)].plan.registry_version,
      mgr_module_snapshot>>

\* The last call found no value at its first attempt and did not retry.
SkippedRetry == ResolveCall /\ ~mgr_call.shared /\ ~RetriedResolve

\* The retry of the last call ran its query and missed.
RetryMissed ==
    /\ RetriedResolve
    /\ ~mgr_call.shared
    /\ mgr_call.steps[Len(mgr_call.steps)].kind = "query"

C33_WitnessSkipped ==
    /\ SkippedRetry
    /\ mgr_pre.call.op = "resolve"
    /\ mgr_call.raised = "SettingsResolveError"

\* A retry that missed and left the current pair.
C33_WitnessRetryMissed ==
    /\ RetryMissed
    /\ mgr_missing_cache[RequestKey] = PairAtCall
    /\ RequestKey \notin DOMAIN mgr_pre.missing_cache

\* A retry that resolved: no entry of the request is left.
C33_WitnessRetryResolved ==
    /\ RetriedResolve
    /\ mgr_call.shared
    /\ RequestKey \notin DOMAIN mgr_missing_cache


(***************************************************************************)
(* Claims about an init that raises (checked under SpecFailedInit).        *)
(***************************************************************************)
\* The errors of the preparation of the runtime.
PreparationErrors == {"TypeError", "SettingsValidationError", "SettingsRegistrationError"}

\* The last call was an init, and it raised while it prepared the runtime.
InitRaisedNow == mgr_call.op = "init" /\ mgr_call.raised \in PreparationErrors

\* The call before the last was such an init.
InitRaisedBefore ==
    /\ mgr_pre.call # None
    /\ mgr_pre.call.op = "init"
    /\ mgr_pre.call.raised \in PreparationErrors

\* C36: an init that raises while it prepares the runtime leaves the manager
\* uninitialised: no source is remembered, an init that follows with another
\* path is accepted, and a get that follows reads the sources in full, and
\* does not fail on a store that is missing.
C36_FailedInitLeavesUninitialised ==
    /\ InitRaisedNow => mgr_source = None
    /\ (InitRaisedBefore /\ mgr_call.op = "init"
            /\ mgr_call.args.settings_path # mgr_pre.call.args.settings_path)
        => mgr_call.raised # "different source"
    /\ (InitRaisedBefore /\ mgr_call.op = "get")
        => mgr_call.raised # "live config store is not initialized"

\* The three ways the claim fails, each reached.
C36_SourceKept == ~(InitRaisedNow /\ mgr_source # None /\ ~mgr_live_config)
C36_SecondInitRefused ==
    ~(InitRaisedBefore /\ mgr_call.op = "init" /\ mgr_call.raised = "different source")
C36_GetWithoutStore ==
    ~(InitRaisedBefore /\ mgr_pre.call.raised = "TypeError" /\ mgr_call.op = "get"
        /\ mgr_call.raised = "live config store is not initialized")


(***************************************************************************)
(* Claims about a frozen path (checked under SpecManager).                 *)
(***************************************************************************)
\* The call before the last ended a convergence on a cycle of path controls,
\* and the last call is a get or a reload that returned, with the files and
\* the environment as that call left them.
AfterFrozenPath ==
    /\ mgr_pre.call # None
    /\ mgr_pre.call.raised = NoStr
    /\ mgr_pre.call.cycle_warnings > 0
    /\ mgr_call.op \in {"get", "reload"}
    /\ mgr_call.raised = NoStr
    /\ mgr_pre.files = files
    /\ mgr_pre.environ = environ

\* C38: once a convergence froze on a path because of a cycle of path
\* controls, a later get or reload with nothing changed keeps the settings
\* path and returns the same typed root, under any reload mode.
C38_FrozenPathStays ==
    AfterFrozenPath =>
        /\ mgr_source.settings_path = mgr_pre.source.settings_path
        /\ mgr_settings = mgr_pre.settings

\* What holds: a get under the modes off and on_change does not converge
\* again and keeps path and root; a reload, and a get under the mode always,
\* converge from the frozen path, the only path they count as visited.
C38_FrozenPathStaysUnlessReloaded ==
    (AfterFrozenPath /\ mgr_call.op = "get" /\ mgr_pre.source.reload_mode # "always")
        => /\ mgr_source.settings_path = mgr_pre.source.settings_path
           /\ mgr_settings = mgr_pre.settings

\* A get kept the frozen path and the root.
C38_Witness ==
    /\ AfterFrozenPath
    /\ mgr_call.op = "get"
    /\ mgr_pre.source.reload_mode # "always"
    /\ mgr_source.settings_path = mgr_pre.source.settings_path
    /\ mgr_settings = mgr_pre.settings

\* A reload moved from one member of the cycle to another.
C38_WitnessReload ==
    /\ AfterFrozenPath
    /\ mgr_call.op = "reload"
    /\ mgr_call.cycle_warnings > 0
    /\ mgr_source.settings_path # mgr_pre.source.settings_path
    /\ mgr_settings # mgr_pre.settings

\* A get under the mode always did.
C38_WitnessAlways ==
    /\ AfterFrozenPath
    /\ mgr_call.op = "get"
    /\ mgr_pre.source.reload_mode = "always"
    /\ mgr_source.settings_path # mgr_pre.source.settings_path


(***************************************************************************)
(* Claims about the root a redirect chain ends with (under SpecManager).   *)
(***************************************************************************)
\* The manager as __init__ leaves it.
FreshManager ==
    [Manager EXCEPT !.source = None, !.live_config = FALSE, !.slots = EmptyFn, !.rev = 0,
                    !.version = 0, !.source_states = EmptyFn, !.schema = None,
                    !.registry_version = -1, !.snapshot_live_version = -1,
                    !.settings = None, !.missing_cache = EmptyFn,
                    !.validation_fallback_warnings = {}]

\* What init(path), with the env prefix of the last call, gives a fresh
\* manager over the files and the environment as they are.
DirectInit(path) == init_locked(FreshManager, resolve_source(path, mgr_call.args.env_prefix))

\* The first init of the manager followed redirects, met no cycle, and
\* ended on a file that redirects no further.
InitOverChain ==
    /\ mgr_call.op = "init"
    /\ mgr_call.raised = NoStr
    /\ mgr_pre.source = None
    /\ mgr_call.path_switches # <<>>
    /\ mgr_call.cycle_warnings = 0
    /\ FileRedirect(mgr_source.settings_path) = mgr_source.settings_path

\* C39: the typed root a redirect chain ends with is the root init gives
\* when called with the final file directly, whatever the files on the way
\* contain.
C39_ChainRootIsDirectRoot ==
    InitOverChain =>
        /\ DirectInit(mgr_source.settings_path).raised = NoStr
        /\ mgr_settings = DirectInit(mgr_source.settings_path).settings

\* What holds: the roots agree when no variable of the environment names a
\* path the final file sets.  An entry the path switch writes for the file
\* carries a revision above the one of the environment's entry, and wins
\* over it; the entries init reads directly lose to the environment's.
NoValueInEnvironment ==
    \A file \in entries(slots), other \in entries(slots) :
        (file.source = "yaml" /\ other.source # "yaml")
            => settings_project_path(other, mgr_source.env_prefix, mgr_source.case_sensitive)
                   # file.path

C39_ChainRootIsDirectRootWithoutEnv ==
    (InitOverChain /\ NoValueInEnvironment) =>
        /\ DirectInit(mgr_source.settings_path).raised = NoStr
        /\ mgr_settings = DirectInit(mgr_source.settings_path).settings

\* A chain of two redirects ended with the root of the final file.
C39_Witness ==
    /\ InitOverChain
    /\ NoValueInEnvironment
    /\ Len(mgr_call.path_switches) = 2
    /\ AppName(mgr_settings) = "c"
    /\ mgr_settings = DirectInit(mgr_source.settings_path).settings

\* The file's value won over the environment's after a redirect, and the
\* environment's wins when init is given the final file.
C39_WitnessEnvLost ==
    /\ InitOverChain
    /\ mgr_call.args.env_prefix = NotGiven
    /\ AppName(mgr_settings) # "env"
    /\ AppName(DirectInit(mgr_source.settings_path).settings) = "env"


(***************************************************************************)
(* Claims about a field and a dotted path (checked under SpecField).       *)
(***************************************************************************)
\* The last call resolved a string target with a field on the typed root,
\* and returned or raised SettingsResolveError.
FieldCall ==
    /\ mgr_call.op = "resolve"
    /\ mgr_call.args.target.kind = "str"
    /\ mgr_call.args.field # NoText
    /\ mgr_call.raised \in {NoStr, "SettingsResolveError"}
    /\ mgr_settings # None

\* What the dotted path of the target and the field of the last call gives
\* on the same root under the same case policy.
DottedOutcome ==
    evaluate_request(
        GetSettings(StrTarget(dotted(mgr_call.args.target.text, mgr_call.args.field)),
                    NoText, NoDefault),
        mgr_settings, sections_by_path, mgr_source.case_sensitive)

SameAsDotted ==
    IF mgr_call.raised = NoStr THEN DottedOutcome = mgr_call.value
    ELSE DottedOutcome.t = "raise"

\* The first segment of a path names the control namespace.
reserved(text) == lower(part_key(split_lookup_path(text)[1])) = "fastapiex"

\* C40: resolve(T, field=F) and resolve of the dotted path T.F have the
\* same outcome, the same value or a miss both, under either case policy.
C40_FieldIsDottedPath == FieldCall => SameAsDotted

\* What holds: the outcomes are the same when the keys are folded, and
\* under the exact policy when the first segments of T and of F both name
\* the control namespace or both do not.  Each walk folds the keys by its
\* own first segment: that of F for the field, that of T for the dotted
\* path.
C40_FieldIsDottedPathSameNamespace ==
    (FieldCall /\ (mgr_source.case_sensitive
                      => reserved(mgr_call.args.target.text) = reserved(mgr_call.args.field)))
        => SameAsDotted

\* A field found by folding the keys, like its dotted path.
C40_Witness ==
    /\ FieldCall
    /\ ~mgr_source.case_sensitive
    /\ mgr_call.args.field = <<"NAME">>
    /\ mgr_call.raised = NoStr
    /\ DottedOutcome = mgr_call.value

\* Under the exact policy: both walks find the value, or both miss.
C40_WitnessExact ==
    /\ FieldCall
    /\ mgr_source.case_sensitive
    /\ reserved(mgr_call.args.target.text) = reserved(mgr_call.args.field)
    /\ mgr_call.raised = NoStr
    /\ DottedOutcome = mgr_call.value

\* Under the exact policy the field FastAPIEx.name of peers is found by
\* folding the keys, and the dotted path peers.FastAPIEx.name misses.
C40_WitnessFieldFolded ==
    /\ FieldCall
    /\ mgr_source.case_sensitive
    /\ mgr_call.args.target.text = <<"peers">>
    /\ mgr_call.args.field = <<"FastAPIEx", Sep, "name">>
    /\ mgr_call.raised = NoStr
    /\ DottedOutcome.t = "raise"

\* Under the exact policy the field Settings.Reload of fastapiex misses,
\* and the dotted path fastapiex.Settings.Reload is found.
C40_WitnessDottedFolded ==
    /\ FieldCall
    /\ mgr_source.case_sensitive
    /\ mgr_call.args.target.text = <<"fastapiex">>
    /\ mgr_call.raised = "SettingsResolveError"
    /\ DottedOutcome.t # "raise"


====
